---- MODULE Spec2Model ----
(***************************************************************************)
(* DishGenius: the tool registry, the tool-call executor and the chat-turn *)
(* orchestrator (POST handler) in its two variants:                        *)
(*   "completions" - chat.completions.create  (src/unnamed/part_000)       *)
(*   "responses"   - responses.create         (src/unnamed/part_001)       *)
(* JavaScript values are modelled as tagged records (JS values), strings   *)
(* as TLA+ strings read character by character.                            *)
(***************************************************************************)
EXTENDS Integers, Sequences, FiniteSets, TLC

VARIABLES
  variant,        \* which POST handler is deployed
  apiKey,         \* process.env.OPENAI_API_KEY is set
  toolRegistry,   \* the Map of the registry, as its entries in insertion order
  pc,             \* position of the turn in the handler
  request,        \* what request.json() yields for this turn
  messages,       \* the destructured messages of the body
  providerInputs, \* the message lists sent to the provider, in call order
  executorCalls,  \* how many times executeToolCalls was invoked
  firstReply,     \* what the first provider call returned
  toolCalls,      \* the batch handed to executeToolCalls
  callState,      \* per call of the batch: its callback's status and awaited promise
  toolResults,    \* per call of the batch: its ToolResult (once settled)
  settleOrder,    \* indices of the batch in the order their promises settled
  finalReply,     \* second reply as received
  response        \* the Response returned to the client

vars == <<variant, apiKey, toolRegistry, pc, request, messages, providerInputs,
          executorCalls, firstReply, toolCalls, callState, toolResults,
          settleOrder, finalReply, response>>

---------------------------------------------------------------------------
(* Bounds of the model *)
MaxMsgs == 2
MaxCalls == 2

---------------------------------------------------------------------------
(* JavaScript values *)

JUndef == [kind |-> "undefined"]
JNull == [kind |-> "null"]
JStr(s) == [kind |-> "string", s |-> s]
JNum(n) == [kind |-> "number", n |-> n]
JBool(b) == [kind |-> "boolean", b |-> b]
JArr(items) == [kind |-> "array", items |-> items]
JObj(keys, vals) == [kind |-> "object", keys |-> keys, vals |-> vals]

\* typeof v === "string"
IsString(v) == v.kind = "string"

\* Array.isArray(v)
IsArray(v) == v.kind = "array"

\* !v : the falsy values of JavaScript
Falsy(v) ==
  \/ v.kind \in {"undefined", "null"}
  \/ v.kind = "string" /\ v.s = ""
  \/ v.kind = "number" /\ v.n = 0
  \/ v.kind = "boolean" /\ ~v.b

\* reading a property of null or undefined throws a TypeError
Nullish(v) == v.kind \in {"undefined", "null"}

\* index of key k in object o, 0 when absent
KeyIndex(o, k) ==
  IF \E i \in 1..Len(o.keys) : o.keys[i] = k
  THEN CHOOSE i \in 1..Len(o.keys) : o.keys[i] = k
  ELSE 0

\* v.k for a non-nullish v: own property of an object, undefined otherwise
Get(v, k) ==
  IF v.kind = "object" /\ KeyIndex(v, k) # 0 THEN v.vals[KeyIndex(v, k)] ELSE JUndef

\* o[k] = x on an object: in place when the key exists, appended otherwise
ObjSet(o, k, x) ==
  IF KeyIndex(o, k) # 0
  THEN JObj(o.keys, [o.vals EXCEPT ![KeyIndex(o, k)] = x])
  ELSE JObj(Append(o.keys, k), Append(o.vals, x))

\* String(v) / `${v}` for the values that reach a template literal here
JSToString(v) ==
  CASE v.kind = "string" -> v.s
    [] v.kind = "undefined" -> "undefined"
    [] v.kind = "null" -> "null"
    [] v.kind = "number" -> ToString(v.n)
    [] v.kind = "boolean" -> (IF v.b THEN "true" ELSE "false")
    [] v.kind = "array" -> ""
    [] OTHER -> "[object Object]"

---------------------------------------------------------------------------
(* Strings, character by character *)

Char(s, i) == SubSeq(s, i, i)

Digits == "0123456789"

IsDigit(c) == \E d \in 1..10 : Char(Digits, d) = c

DigitVal(c) == (CHOOSE d \in 1..10 : Char(Digits, d) = c) - 1

RECURSIVE SkipWs(_, _)
SkipWs(s, i) == IF i <= Len(s) /\ Char(s, i) = " " THEN SkipWs(s, i + 1) ELSE i

\* position of the first occurrence of character c in s at or after i, 0 if none
RECURSIVE FindChar(_, _, _)
FindChar(s, c, i) ==
  IF i > Len(s) THEN 0
  ELSE IF Char(s, i) = c THEN i
  ELSE FindChar(s, c, i + 1)

---------------------------------------------------------------------------
(* JSON.parse and JSON.stringify.  The texts handled are JSON without      *)
(* escape sequences; the message of the SyntaxError is the engine's (V8:   *)
(* "Unexpected token c in JSON at position p", "Unexpected end of JSON     *)
(* input").                                                                *)

PFail(msg) == [ok |-> FALSE, val |-> JUndef, pos |-> 0, msg |-> msg]

POk(v, p) == [ok |-> TRUE, val |-> v, pos |-> p, msg |-> ""]

UnexpectedAt(s, i) ==
  IF i > Len(s)
  THEN PFail("Unexpected end of JSON input")
  ELSE PFail("Unexpected token " \o Char(s, i) \o " in JSON at position "
             \o ToString(i - 1))

\* a string literal whose opening quote is at i - 1; acc is the text read so far;
\* of the escape sequences, \" and \\ are read
RECURSIVE ParseStringFrom(_, _, _)
ParseStringFrom(s, i, acc) ==
  IF i > Len(s) THEN UnexpectedAt(s, i)
  ELSE IF Char(s, i) = "\"" THEN POk(JStr(acc), i + 1)
  ELSE IF Char(s, i) = "\\"
       THEN IF i + 1 <= Len(s) /\ Char(s, i + 1) \in {"\"", "\\"}
            THEN ParseStringFrom(s, i + 2, acc \o Char(s, i + 1))
            ELSE UnexpectedAt(s, i + 1)
  ELSE ParseStringFrom(s, i + 1, acc \o Char(s, i))

ParseString(s, i) == ParseStringFrom(s, i, "")

RECURSIVE ParseNumber(_, _, _)
ParseNumber(s, i, acc) ==
  IF i <= Len(s) /\ IsDigit(Char(s, i))
  THEN ParseNumber(s, i + 1, 10 * acc + DigitVal(Char(s, i)))
  ELSE POk(JNum(acc), i)

RECURSIVE MismatchAt(_, _, _, _)
MismatchAt(s, i, word, k) ==
  IF k > Len(word) THEN 0
  ELSE IF i + k - 1 > Len(s) \/ Char(s, i + k - 1) # Char(word, k) THEN i + k - 1
  ELSE MismatchAt(s, i, word, k + 1)

ParseLiteral(s, i, word, v) ==
  IF MismatchAt(s, i, word, 1) = 0 THEN POk(v, i + Len(word))
  ELSE UnexpectedAt(s, MismatchAt(s, i, word, 1))

RECURSIVE ParseValue(_, _)
RECURSIVE ParseMembers(_, _, _)
RECURSIVE ParseElements(_, _, _)

ParseValue(s, i) ==
  LET j == SkipWs(s, i) IN
  IF j > Len(s) THEN UnexpectedAt(s, j)
  ELSE LET c == Char(s, j) IN
    CASE c = "{" ->
           (LET k == SkipWs(s, j + 1) IN
            IF k <= Len(s) /\ Char(s, k) = "}"
            THEN POk(JObj(<<>>, <<>>), k + 1)
            ELSE ParseMembers(s, k, JObj(<<>>, <<>>)))
      [] c = "[" ->
           (LET k == SkipWs(s, j + 1) IN
            IF k <= Len(s) /\ Char(s, k) = "]"
            THEN POk(JArr(<<>>), k + 1)
            ELSE ParseElements(s, k, <<>>))
      [] c = "\"" -> ParseString(s, j + 1)
      [] c = "n" -> ParseLiteral(s, j, "null", JNull)
      [] c = "t" -> ParseLiteral(s, j, "true", JBool(TRUE))
      [] c = "f" -> ParseLiteral(s, j, "false", JBool(FALSE))
      [] IsDigit(c) -> ParseNumber(s, j, 0)
      [] OTHER -> UnexpectedAt(s, j)

ParseMembers(s, i, obj) ==
  LET j == SkipWs(s, i) IN
  IF j > Len(s) \/ Char(s, j) # "\"" THEN UnexpectedAt(s, j)
  ELSE LET key == ParseString(s, j + 1) IN
    IF ~key.ok THEN key
    ELSE LET c == SkipWs(s, key.pos) IN
      IF c > Len(s) \/ Char(s, c) # ":" THEN UnexpectedAt(s, c)
      ELSE LET v == ParseValue(s, c + 1) IN
        IF ~v.ok THEN v
        ELSE LET e == SkipWs(s, v.pos) IN
          IF e > Len(s) THEN UnexpectedAt(s, e)
          ELSE IF Char(s, e) = "," THEN ParseMembers(s, e + 1, ObjSet(obj, key.val.s, v.val))
          ELSE IF Char(s, e) = "}" THEN POk(ObjSet(obj, key.val.s, v.val), e + 1)
          ELSE UnexpectedAt(s, e)

ParseElements(s, i, items) ==
  LET v == ParseValue(s, i) IN
  IF ~v.ok THEN v
  ELSE LET e == SkipWs(s, v.pos) IN
    IF e > Len(s) THEN UnexpectedAt(s, e)
    ELSE IF Char(s, e) = "," THEN ParseElements(s, e + 1, Append(items, v.val))
    ELSE IF Char(s, e) = "]" THEN POk(JArr(Append(items, v.val)), e + 1)
    ELSE UnexpectedAt(s, e)

\* JSON.parse(text) for a text: one value, then nothing but white space
ParseText(s) ==
  LET v == ParseValue(s, 1) IN
  IF ~v.ok THEN v
  ELSE IF SkipWs(s, v.pos) <= Len(s) THEN UnexpectedAt(s, SkipWs(s, v.pos))
  ELSE v

\* JSON.parse(x): the argument is first converted to a string
JSONParse(x) == ParseText(JSToString(x))

\* the text of s with " and \ escaped (halving keeps the recursion shallow)
RECURSIVE Escape(_)
Escape(s) ==
  IF Len(s) = 0 THEN ""
  ELSE IF Len(s) = 1 THEN (IF s \in {"\"", "\\"} THEN "\\" \o s ELSE s)
  ELSE Escape(SubSeq(s, 1, Len(s) \div 2)) \o Escape(SubSeq(s, Len(s) \div 2 + 1, Len(s)))

\* a JSON string literal
Quote(s) == "\"" \o Escape(s) \o "\""

RECURSIVE JSONStringify(_)
RECURSIVE StringifyMembers(_, _, _)
RECURSIVE StringifyElements(_, _)

\* the members of object o from index i on; an undefined-valued member is skipped
StringifyMembers(o, i, first) ==
  IF i > Len(o.keys) THEN ""
  ELSE IF o.vals[i].kind = "undefined" THEN StringifyMembers(o, i + 1, first)
  ELSE (IF first THEN "" ELSE ",") \o Quote(o.keys[i]) \o ":"
       \o JSONStringify(o.vals[i]) \o StringifyMembers(o, i + 1, FALSE)

StringifyElements(items, i) ==
  IF i > Len(items) THEN ""
  ELSE (IF i = 1 THEN "" ELSE ",")
       \o (IF items[i].kind = "undefined" THEN "null" ELSE JSONStringify(items[i]))
       \o StringifyElements(items, i + 1)

\* JSON.stringify(v) as text (for undefined, which yields no text, "undefined")
JSONStringify(v) ==
  CASE v.kind = "null" -> "null"
    [] v.kind = "undefined" -> "undefined"
    [] v.kind = "string" -> Quote(v.s)
    [] v.kind = "number" -> ToString(v.n)
    [] v.kind = "boolean" -> (IF v.b THEN "true" ELSE "false")
    [] v.kind = "array" -> "[" \o StringifyElements(v.items, 1) \o "]"
    [] OTHER -> "{" \o StringifyMembers(v, 1, TRUE) \o "}"

---------------------------------------------------------------------------
(* String methods used by the tools *)

UpperCase == "ABCDEFGHIJKLMNOPQRSTUVWXYZ"

LowerCase == "abcdefghijklmnopqrstuvwxyz"

\* the characters of the model's texts in ascending code-unit order
CodeOrder == " \"(),.0123456789:ABCDEFGHIJKLMNOPQRSTUVWXYZ[]abcdefghijklmnopqrstuvwxyz{}"

CharCode(c) == FindChar(CodeOrder, c, 1)

LowerChar(c) ==
  IF FindChar(UpperCase, c, 1) # 0 THEN Char(LowerCase, FindChar(UpperCase, c, 1)) ELSE c

\* s.toLowerCase() (halving keeps the recursion shallow)
RECURSIVE ToLowerCase(_)
ToLowerCase(s) ==
  IF Len(s) = 0 THEN ""
  ELSE IF Len(s) = 1 THEN LowerChar(s)
  ELSE ToLowerCase(SubSeq(s, 1, Len(s) \div 2))
       \o ToLowerCase(SubSeq(s, Len(s) \div 2 + 1, Len(s)))

\* s.includes(sub)
Includes(s, sub) ==
  \E i \in 1..(Len(s) - Len(sub) + 1) : SubSeq(s, i, i + Len(sub) - 1) = sub

\* s.trim() for texts whose only white space is the space
RECURSIVE TrimStart(_)
TrimStart(s) ==
  IF Len(s) > 0 /\ Char(s, 1) = " " THEN TrimStart(SubSeq(s, 2, Len(s))) ELSE s

RECURSIVE TrimEnd(_)
TrimEnd(s) ==
  IF Len(s) > 0 /\ Char(s, Len(s)) = " " THEN TrimEnd(SubSeq(s, 1, Len(s) - 1)) ELSE s

Trim(s) == TrimEnd(TrimStart(s))

\* s.split(",")
RECURSIVE SplitComma(_)
SplitComma(s) ==
  LET c == FindChar(s, ",", 1) IN
  IF c = 0 THEN <<s>>
  ELSE <<SubSeq(s, 1, c - 1)>> \o SplitComma(SubSeq(s, c + 1, Len(s)))

\* a < b in the order of Array.prototype.sort() on strings (by code unit)
RECURSIVE StrLess(_, _)
StrLess(a, b) ==
  IF Len(b) = 0 THEN FALSE
  ELSE IF Len(a) = 0 THEN TRUE
  ELSE IF Char(a, 1) # Char(b, 1) THEN CharCode(Char(a, 1)) < CharCode(Char(b, 1))
  ELSE StrLess(SubSeq(a, 2, Len(a)), SubSeq(b, 2, Len(b)))

\* insertion of x into a sorted sequence of strings
RECURSIVE InsertSorted(_, _)
InsertSorted(seq, x) ==
  IF Len(seq) = 0 THEN <<x>>
  ELSE IF StrLess(x, seq[1]) THEN <<x>> \o seq
  ELSE <<seq[1]>> \o InsertSorted(Tail(seq), x)

\* faulty variant of SortStrings: the keys are left in insertion order
SortStringsOmitted(seq) == seq

\* seq.sort() on strings
RECURSIVE SortStrings(_)
SortStrings(seq) ==
  IF Len(seq) = 0 THEN <<>>
  ELSE InsertSorted(SortStrings(SubSeq(seq, 1, Len(seq) - 1)), seq[Len(seq)])

\* seq.map(F)
MapSeq(seq, F(_)) == [i \in 1..Len(seq) |-> F(seq[i])]

---------------------------------------------------------------------------
(* Outcome of awaiting an execute function *)

Resolved(v) == [threw |-> FALSE, value |-> v, message |-> ""]

Thrown(m) == [threw |-> TRUE, value |-> JUndef, message |-> m]

\* the TypeError of destructuring `const { prop, ... } = params` on null/undefined
DestructureError(prop, params) ==
  Thrown("Cannot destructure property '" \o prop \o "' of 'params' as it is "
         \o JSToString(params) \o ".")

\* the TypeError of calling x.toLowerCase() on a value that is not a string
ToLowerCaseError(name, x) ==
  IF Nullish(x)
  THEN Thrown("Cannot read properties of " \o JSToString(x) \o " (reading 'toLowerCase')")
  ELSE Thrown(name \o ".toLowerCase is not a function")

---------------------------------------------------------------------------
(* The nutrition tool *)

NutritionFields == <<"calories", "protein", "carbs", "fiber", "sugar", "fat", "servingSize">>

NutritionRecord(cal, protein, carbs, fiber, sugar, fat, serving) ==
  JObj(NutritionFields,
       <<JNum(cal), JStr(protein), JStr(carbs), JStr(fiber), JStr(sugar), JStr(fat),
         JStr(serving)>>)

\* the mock database, as its entries in key order
nutritionDatabase ==
  << [key |-> "apple",
      data |-> NutritionRecord(95, "0.5g", "25g", "4g", "19g", "0.3g", "1 medium apple (182g)")],
     [key |-> "banana",
      data |-> NutritionRecord(105, "1.3g", "27g", "3.1g", "14g", "0.4g", "1 medium banana (118g)")],
     [key |-> "chicken breast",
      data |-> NutritionRecord(165, "31g", "0g", "0g", "0g", "3.6g", "100g (cooked)")],
     [key |-> "rice",
      data |-> NutritionRecord(130, "2.7g", "28g", "0.4g", "0.1g", "0.3g", "100g (cooked)")],
     [key |-> "pasta",
      data |-> NutritionRecord(158, "5.8g", "31g", "1.8g", "0.6g", "0.9g", "100g (cooked)")] >>

\* Object.keys(nutritionDatabase)
NutritionKeys == [i \in 1..Len(nutritionDatabase) |-> nutritionDatabase[i].key]

\* end of the run of digits of s that starts at i (i itself when there is none)
RECURSIVE DigitsEnd(_, _)
DigitsEnd(s, i) ==
  IF i <= Len(s) /\ IsDigit(Char(s, i)) THEN DigitsEnd(s, i + 1) ELSE i

\* servingSize.match(/\((\d+)g\)/): the positions of "(" that start a match
ServingMatches(s) ==
  { i \in 1..Len(s) :
      /\ Char(s, i) = "("
      /\ DigitsEnd(s, i + 1) > i + 1
      /\ DigitsEnd(s, i + 1) + 1 <= Len(s)
      /\ SubSeq(s, DigitsEnd(s, i + 1), DigitsEnd(s, i + 1) + 1) = "g)" }

\* parseInt(match[1], 10) of the leftmost match; 0 when there is no match
ServingGrams(s) ==
  IF ServingMatches(s) = {} THEN 0
  ELSE LET i == CHOOSE m \in ServingMatches(s) : \A n \in ServingMatches(s) : m <= n
       IN ParseNumber(s, i + 1, 0).val.n

\* faulty variant of RoundPer100g: Math.floor in place of Math.round
RoundPer100gDown(calories, servingGrams) == (calories * 100) \div servingGrams

\* Math.round(calories * (100 / servingGrams)): nearest integer, halves upwards
RoundPer100g(calories, servingGrams) ==
  (2 * calories * 100 + servingGrams) \div (2 * servingGrams)

\* { ...obj } appended after the members of `head`, later keys overwriting
RECURSIVE Spread(_, _, _)
Spread(head, obj, i) ==
  IF i > Len(obj.keys) THEN head
  ELSE Spread(ObjSet(head, obj.keys[i], obj.vals[i]), obj, i + 1)

executeNutritionLookup(params) ==
  IF Nullish(params) THEN DestructureError("food", params)
  ELSE
    LET food == Get(params, "food")
        unit == IF Get(params, "unit").kind = "undefined" THEN JStr("serving")
                ELSE Get(params, "unit")
    IN
    IF ~IsString(food) THEN ToLowerCaseError("food", food)
    ELSE
      LET wanted == ToLowerCase(food.s)
          found == SelectSeq(nutritionDatabase, LAMBDA e : ToLowerCase(e.key) = wanted)
      IN
      IF Len(found) = 0
      THEN
        LET near == SelectSeq(NutritionKeys,
                              LAMBDA k : \/ Includes(ToLowerCase(k), wanted)
                                         \/ Includes(wanted, ToLowerCase(k)))
            suggestions == SubSeq(near, 1, IF Len(near) < 3 THEN Len(near) ELSE 3)
        IN Resolved(JObj(
             <<"error", "availableFoods", "suggestions">>,
             << JStr("Nutrition information for \"" \o food.s \o "\" not found."),
                JArr(MapSeq(SortStrings(NutritionKeys), JStr)),
                IF Len(suggestions) > 0 THEN JArr(MapSeq(suggestions, JStr)) ELSE JUndef >>))
      ELSE
        LET foodKey == found[1].key
            nutritionData == found[1].data
            servingSize == Get(nutritionData, "servingSize").s
            servingGrams == ServingGrams(servingSize)
        IN
        IF unit = JStr("100g") /\ Includes(servingSize, "g") /\ ServingMatches(servingSize) # {}
        THEN
          LET adjustedData ==
                ObjSet(nutritionData, "calories",
                       JNum(RoundPer100g(Get(nutritionData, "calories").n, servingGrams)))
          IN Resolved(Spread(
               JObj(<<"food", "unit", "originalServing">>,
                    <<JStr(foodKey), JStr("100g"), JStr(servingSize)>>),
               adjustedData, 1))
        ELSE
          Resolved(Spread(JObj(<<"food", "unit">>, <<JStr(foodKey), JStr("serving")>>),
                          nutritionData, 1))

---------------------------------------------------------------------------
(* The recipe tool *)

Recipe(name, ingredients, instructions, difficulty, prepTime, cookTime) ==
  JObj(<<"name", "ingredients", "instructions", "difficulty", "prepTime", "cookTime">>,
       <<JStr(name), JArr(MapSeq(ingredients, JStr)), JStr(instructions), JStr(difficulty),
         JStr(prepTime), JStr(cookTime)>>)

\* the mock database (the degree sign of "350°F" is left out of the third text)
recipeDatabase ==
  << Recipe("Pasta Carbonara",
            <<"pasta", "eggs", "bacon", "cheese", "black pepper">>,
            "1. Cook pasta. 2. Fry bacon. 3. Mix eggs and cheese. 4. Combine all ingredients with pasta. 5. Add black pepper.",
            "easy", "10 minutes", "15 minutes"),
     Recipe("Veggie Stir Fry",
            <<"rice", "bell peppers", "broccoli", "carrots", "soy sauce", "garlic", "ginger">>,
            "1. Cook rice. 2. Stir-fry vegetables with garlic and ginger. 3. Add soy sauce. 4. Serve over rice.",
            "easy", "15 minutes", "10 minutes"),
     Recipe("Chocolate Chip Cookies",
            <<"flour", "butter", "sugar", "chocolate chips", "eggs", "vanilla extract">>,
            "1. Cream butter and sugar. 2. Add eggs and vanilla. 3. Mix in flour. 4. Fold in chocolate chips. 5. Bake at 350F for 10-12 minutes.",
            "medium", "20 minutes", "12 minutes") >>

\* faulty variant of MatchedIngredients: an ingredient matches only a recipe
\* ingredient it is equal to
MatchedIngredientsExact(recipe, ingredients) ==
  SelectSeq(ingredients,
            LAMBDA ingredient :
              \E r \in 1..Len(Get(recipe, "ingredients").items) :
                ToLowerCase(Get(recipe, "ingredients").items[r].s) = ingredient)

\* the requested ingredients that are a substring of some ingredient of the recipe
MatchedIngredients(recipe, ingredients) ==
  SelectSeq(ingredients,
            LAMBDA ingredient :
              \E r \in 1..Len(Get(recipe, "ingredients").items) :
                Includes(ToLowerCase(Get(recipe, "ingredients").items[r].s), ingredient))

executeRecipeLookup(params) ==
  IF Nullish(params) THEN DestructureError("query", params)
  ELSE
    LET query == Get(params, "query")
        filterByDifficulty == Get(params, "filterByDifficulty")
    IN
    IF ~IsString(query) THEN ToLowerCaseError("query", query)
    ELSE
      LET searchTerm == ToLowerCase(query.s)
          isIngredientSearch == Includes(searchTerm, ",")
          ingredients == MapSeq(SplitComma(searchTerm), Trim)
          found ==
            IF isIngredientSearch
            THEN SelectSeq(recipeDatabase,
                           LAMBDA recipe :
                             2 * Len(MatchedIngredients(recipe, ingredients)) >= Len(ingredients))
            ELSE SelectSeq(recipeDatabase,
                           LAMBDA recipe : Includes(ToLowerCase(Get(recipe, "name").s), searchTerm))
          results ==
            IF Falsy(filterByDifficulty) THEN found
            ELSE SelectSeq(found, LAMBDA recipe : Get(recipe, "difficulty") = filterByDifficulty)
      IN Resolved(JObj(
           <<"results", "query", "totalResults", "searchType">>,
           << JArr(results), query, JNum(Len(results)),
              JStr(IF isIngredientSearch THEN "ingredients" ELSE "recipe_name") >>))

---------------------------------------------------------------------------
(* The tool registry *)

ToolNameRECIPE_LOOKUP == "lookupRecipe"

ToolNameNUTRITION_INFO == "getNutritionInfo"

\* the definition registered by the nutrition tool module
NutritionTool ==
  [ type |-> "function",
    function |->
      [ name |-> "getNutritionInfo",
        description |-> "Get nutritional information for a food item",
        parameters |->
          [ type |-> "object",
            properties |-> <<"food", "unit">>,
            required |-> <<"food">>,
            additionalProperties |-> FALSE ] ],
    execute |-> "executeNutritionLookup" ]

\* the definition registered by the recipe tool module
RecipeTool ==
  [ type |-> "function",
    function |->
      [ name |-> "lookupRecipe",
        description |-> "Look up a recipe by name or ingredients",
        parameters |->
          [ type |-> "object",
            properties |-> <<"query", "filterByDifficulty">>,
            required |-> <<"query">>,
            additionalProperties |-> FALSE ] ],
    execute |-> "executeRecipeLookup" ]

\* what Map.get yields for a missing key
NoTool == [type |-> "undefined"]

\* index of key k among the entries of Map m, 0 when absent
MapIndex(m, k) ==
  IF \E i \in 1..Len(m) : m[i].key = k
  THEN CHOOSE i \in 1..Len(m) : m[i].key = k
  ELSE 0

\* faulty variant of registerTool: a name already present keeps its first definition
registerToolKeepFirst(reg, tool) ==
  IF MapIndex(reg, tool.function.name) # 0 THEN reg
  ELSE Append(reg, [key |-> tool.function.name, value |-> tool])

\* faulty variant of registerTool: every registration adds an entry
registerToolAppendOnly(reg, tool) ==
  Append(reg, [key |-> tool.function.name, value |-> tool])

\* toolRegistry.set(tool.function.name, tool)
registerTool(reg, tool) ==
  IF MapIndex(reg, tool.function.name) # 0
  THEN [reg EXCEPT ![MapIndex(reg, tool.function.name)].value = tool]
  ELSE Append(reg, [key |-> tool.function.name, value |-> tool])

\* faulty variant of getTool: an unknown name falls back to the first registered tool
getToolWithFallback(reg, name) ==
  IF IsString(name) /\ MapIndex(reg, name.s) # 0
  THEN reg[MapIndex(reg, name.s)].value
  ELSE IF Len(reg) > 0 THEN reg[1].value ELSE [type |-> "undefined"]

\* toolRegistry.get(name), for a name that is any JavaScript value
getTool(reg, name) ==
  IF IsString(name) /\ MapIndex(reg, name.s) # 0
  THEN reg[MapIndex(reg, name.s)].value
  ELSE NoTool

\* Array.from(toolRegistry.values())
getAllTools(reg) == [i \in 1..Len(reg) |-> reg[i].value]

\* faulty variant of getToolDefinitions: the registry is filtered by the names
getToolDefinitionsInRegistryOrder(reg, toolNames) ==
  IF Falsy(toolNames) \/ Len(toolNames.items) = 0 THEN getAllTools(reg)
  ELSE SelectSeq(getAllTools(reg),
                 LAMBDA tool : \E i \in 1..Len(toolNames.items) :
                                 toolNames.items[i] = JStr(tool.function.name))

\* faulty variant of getToolDefinitions: an empty or absent list selects nothing
getToolDefinitionsNoDefault(reg, toolNames) ==
  IF Falsy(toolNames) THEN <<>>
  ELSE SelectSeq([i \in 1..Len(toolNames.items) |-> getTool(reg, toolNames.items[i])],
                 LAMBDA tool : tool # NoTool)

\* getToolDefinitions(toolNames): toolNames is an array of names, or undefined
\* when the argument is left out
getToolDefinitions(reg, toolNames) ==
  IF Falsy(toolNames) \/ Len(toolNames.items) = 0 THEN getAllTools(reg)
  ELSE SelectSeq([i \in 1..Len(toolNames.items) |-> getTool(reg, toolNames.items[i])],
                 LAMBDA tool : tool # NoTool)

\* faulty variant of prepareToolsForOpenAI: the definitions are passed on whole
prepareToolsKeepingExecute(tools) == tools

\* const { execute, ...toolWithoutExecute } = tool, for each tool
prepareToolsForOpenAI(tools) ==
  [i \in 1..Len(tools) |-> [k \in (DOMAIN tools[i]) \ {"execute"} |-> tools[i][k]]]

\* the registry once the tool modules have been loaded
RegisteredAtStartup == registerTool(registerTool(<<>>, RecipeTool), NutritionTool)

---------------------------------------------------------------------------
(* executeToolCalls: the callback run for each call of the batch *)

\* await tool.execute?.(params): what the awaited value turns out to be
InvokeExecute(tool, params) ==
  IF "execute" \notin DOMAIN tool THEN Resolved(JUndef)
  ELSE CASE tool.execute = "executeNutritionLookup" -> executeNutritionLookup(params)
         [] tool.execute = "executeRecipeLookup" -> executeRecipeLookup(params)
         [] tool.execute = "async () => null" -> Resolved(JNull)
         [] tool.execute = "async () => false" -> Resolved(JBool(FALSE))
         [] tool.execute = "async () => 0" -> Resolved(JNum(0))
         [] tool.execute = "async () => ''" -> Resolved(JStr(""))
         [] tool.execute = "async () => { throw new Error('boom') }" -> Thrown("boom")
         [] OTHER -> Resolved(JUndef)

\* the TypeError of reading property prop of null/undefined
ReadError(v, prop) ==
  Thrown("Cannot read properties of " \o JSToString(v) \o " (reading '" \o prop \o "')")

\* x || y
OrElse(x, y) == IF Falsy(x) THEN y ELSE x

\* v?.prop
OptGet(v, prop) == IF Nullish(v) THEN JUndef ELSE Get(v, prop)

\* the tool name as each handler reads it off the call
\*   completions: toolCall.function.name
\*   responses:   toolCall.name || toolCall.function?.name
ReadToolName(v, toolCall) ==
  IF v = "completions"
  THEN IF Nullish(Get(toolCall, "function")) THEN ReadError(Get(toolCall, "function"), "name")
       ELSE Resolved(Get(Get(toolCall, "function"), "name"))
  ELSE Resolved(OrElse(Get(toolCall, "name"), OptGet(Get(toolCall, "function"), "name")))

\* the raw arguments as each handler reads them off the call
ReadArguments(v, toolCall) ==
  IF v = "completions"
  THEN Get(Get(toolCall, "function"), "arguments")
  ELSE OrElse(Get(toolCall, "arguments"), OptGet(Get(toolCall, "function"), "arguments"))

\* { id: toolCall.id, result }
OkResult(toolCall, result) ==
  JObj(<<"id", "result">>, <<Get(toolCall, "id"), result>>)

\* faulty variant of ErrorResult: the failure is recorded without the null result
ErrorResultWithoutNull(toolCall, message) ==
  JObj(<<"id", "error">>, <<Get(toolCall, "id"), JStr(message)>>)

\* { id: toolCall.id, result: null, error: error.message }
ErrorResult(toolCall, message) ==
  JObj(<<"id", "result", "error">>, <<Get(toolCall, "id"), JNull, JStr(message)>>)

\* a callback that returned without suspending
Settled(result) ==
  [status |-> "settled", awaited |-> Resolved(JUndef), result |-> result, resumed |-> FALSE]

\* a callback suspended at `await tool.execute?.(params)`; it remembers toolName
Pending(outcome, name) ==
  [status |-> "pending", awaited |-> outcome, result |-> name, resumed |-> FALSE]

\* a callback that returned after it was resumed from its await
Resumed(result, outcome) ==
  [status |-> "settled", awaited |-> outcome, result |-> result, resumed |-> TRUE]

\* a callback toolCalls.map has not invoked yet
Unstarted ==
  [status |-> "unstarted", awaited |-> Resolved(JUndef), result |-> JUndef, resumed |-> FALSE]

\* faulty variant of InvalidArgumentsMessage: the SyntaxError is passed on as it is
InvalidArgumentsMessageRaw(parseError) == parseError

\* throw new Error(`Invalid tool arguments: ${e.message}`)
InvalidArgumentsMessage(parseError) == "Invalid tool arguments: " \o parseError

\* throw new Error(`Tool not found: ${toolName}`)
ToolNotFoundMessage(toolName) == "Tool not found: " \o JSToString(toolName)

\* faulty variant of CallbackStart: the tool is resolved before the arguments are parsed
CallbackStartLookupFirst(v, reg, toolCall) ==
  LET toolName == ReadToolName(v, toolCall) IN
  IF toolName.threw THEN Settled(ErrorResult(toolCall, toolName.message))
  ELSE
    LET tool == getTool(reg, toolName.value)
        parsed == JSONParse(ReadArguments(v, toolCall))
    IN
    IF tool = NoTool
    THEN Settled(ErrorResult(toolCall, ToolNotFoundMessage(toolName.value)))
    ELSE IF ~parsed.ok
    THEN Settled(ErrorResult(toolCall, InvalidArgumentsMessage(parsed.msg)))
    ELSE Pending(InvokeExecute(tool, parsed.val), toolName.value)

\* the callback from its start to its first await: it either returns from its
\* catch block (settled) or suspends on the promise of tool.execute (pending,
\* remembering toolName)
CallbackStart(v, reg, toolCall) ==
  LET toolName == ReadToolName(v, toolCall) IN
  IF toolName.threw THEN Settled(ErrorResult(toolCall, toolName.message))
  ELSE
    LET parsed == JSONParse(ReadArguments(v, toolCall)) IN
    IF ~parsed.ok
    THEN Settled(ErrorResult(toolCall, InvalidArgumentsMessage(parsed.msg)))
    ELSE
      LET tool == getTool(reg, toolName.value) IN
      IF tool = NoTool
      THEN Settled(ErrorResult(toolCall, ToolNotFoundMessage(toolName.value)))
      ELSE Pending(InvokeExecute(tool, parsed.val), toolName.value)

\* faulty variant of CallbackResume: the awaited value is returned without the `!result` test
CallbackResumeUnchecked(toolCall, toolName, outcome) ==
  IF outcome.threw THEN ErrorResult(toolCall, outcome.message)
  ELSE OkResult(toolCall, outcome.value)

\* the callback from the await on: the awaited promise has settled as `outcome`
CallbackResume(toolCall, toolName, outcome) ==
  IF outcome.threw THEN ErrorResult(toolCall, outcome.message)
  ELSE IF Falsy(outcome.value)
  THEN ErrorResult(toolCall, "No execute function found for tool: " \o JSToString(toolName))
  ELSE OkResult(toolCall, outcome.value)

\* faulty variant of PromiseAll: the results gathered in the order the callbacks settled
PromiseAllBySettleOrder(results, order) == [k \in 1..Len(order) |-> results[order[k]]]

\* what Promise.all resolves to: the callbacks' results by position in the batch
PromiseAll(results, order) == results

---------------------------------------------------------------------------
(* The POST handler: responses and validation *)

NoResponse == [status |-> 0, body |-> JUndef]

\* Response.json(body)
JsonResponse(body) == [status |-> 200, body |-> body]

\* errorResponse(message, status)
errorResponse(message, status) ==
  [status |-> status, body |-> JObj(<<"error">>, <<JStr(message)>>)]

\* an error as the catch block looks at it: error.response, error.request, error.message
ErrorObject(hasResponse, hasRequest, message) ==
  [response |-> hasResponse, request |-> hasRequest, message |-> message]

\* a TypeError or SyntaxError thrown by the handler's own code
PlainError(message) == ErrorObject(FALSE, FALSE, message)

NoError == PlainError("")

\* faulty variant of CatchResponse: the caught error's own message is sent to the client
CatchResponseWithDetail(error) == errorResponse(error.message, 500)

\* faulty variant of CatchResponse: every caught error gets the same message
CatchResponseAlwaysGeneric(error) ==
  errorResponse("An error occurred while processing your request.", 500)

\* the catch block of POST
CatchResponse(error) ==
  IF error.response THEN errorResponse("An error occurred while processing your request.", 500)
  ELSE IF error.request THEN errorResponse("Could not reach OpenAI service.", 500)
  ELSE errorResponse("An error occurred while processing your request.", 500)

\* a value awaited by the handler: fulfilled with `value` or rejected with `error`
Fulfilled(value) == [threw |-> FALSE, value |-> value, error |-> NoError]

Rejected(error) == [threw |-> TRUE, value |-> JUndef, error |-> error]

NoReply == Fulfilled(JUndef)

\* the test of messages.every(...) on one element that is not null
isValidFormat(msg) ==
  /\ IsString(Get(msg, "role"))
  /\ \/ IsString(Get(msg, "content"))
     \/ Get(msg, "role") = JStr("tool") /\ IsString(Get(msg, "tool_call_id"))

\* messages.every(...) from element i on: "valid", "invalid" at the first element
\* that fails the test, "throws" at a null element reached before any failure
RECURSIVE EveryValid(_, _)
EveryValid(items, i) ==
  IF i > Len(items) THEN "valid"
  ELSE IF Nullish(items[i]) THEN "throws"
  ELSE IF ~isValidFormat(items[i]) THEN "invalid"
  ELSE EveryValid(items, i + 1)

\* the handler from request.json() to the end of validation: the response it
\* returns, or NoResponse when the turn goes on to the first completion
ValidationResponse(req) ==
  IF req.threw THEN CatchResponse(req.error)
  ELSE IF Nullish(req.value)
  THEN CatchResponse(PlainError("Cannot destructure property 'messages' of '(intermediate value)' as it is "
                                \o JSToString(req.value) \o "."))
  ELSE
    LET msgs == Get(req.value, "messages") IN
    IF Falsy(msgs) \/ ~IsArray(msgs) \/ Len(msgs.items) = 0
    THEN errorResponse("Invalid request body: messages array is required.", 400)
    ELSE CASE EveryValid(msgs.items, 1) = "throws" ->
                CatchResponse(PlainError("Cannot read properties of null (reading 'role')"))
           [] EveryValid(msgs.items, 1) = "invalid" -> errorResponse("Invalid message format.", 400)
           [] OTHER -> NoResponse

\* the tools argument of both provider calls
ProviderTools(reg) ==
  prepareToolsForOpenAI(
    getToolDefinitions(reg, JArr(<<JStr(ToolNameRECIPE_LOOKUP), JStr(ToolNameNUTRITION_INFO)>>)))

\* one provider call: the history and the tools it carries
ProviderRequest(input, tools) == [input |-> input, tools |-> tools]

\* faulty variant of IssueCompletion: the call is attempted a second time
IssueCompletionWithRetry(sent, req) == Append(Append(sent, req), req)

\* await openai...create(request): one more call reaches the provider
IssueCompletion(sent, req) == Append(sent, req)

---------------------------------------------------------------------------
(* The POST handler: after a provider reply *)

\* arr[0] of a JavaScript array value
FirstOf(arr) == IF IsArray(arr) /\ Len(arr.items) > 0 THEN arr.items[1] ELSE JUndef

\* completions: completion.choices[0]?.message
ChoiceMessage(completion) == OptGet(FirstOf(Get(completion, "choices")), "message")

\* the calls the handler extracts from the first reply (empty: no tool dispatch)
\*   completions: assistantMessage?.tool_calls when its length is > 0
\*   responses:   [output] when output?.type === "function_call"
ExtractToolCalls(v, reply) ==
  IF v = "completions"
  THEN LET calls == OptGet(ChoiceMessage(reply), "tool_calls") IN
       IF ~Falsy(calls) /\ IsArray(calls) THEN calls.items ELSE <<>>
  ELSE LET output == FirstOf(Get(reply, "output")) IN
       IF OptGet(output, "type") = JStr("function_call") THEN <<output>> ELSE <<>>

\* faulty variant of DirectResponse: the provider's reply is sent back as it came
DirectResponseWholeReply(v, reply) == JsonResponse(reply)

\* faulty variant of DirectResponse: the reply's text is passed on without the content test
DirectResponseUnchecked(v, reply) ==
  JsonResponse(JObj(<<"role", "content">>,
                    << JStr("assistant"),
                       IF v = "completions" THEN OptGet(ChoiceMessage(reply), "content")
                       ELSE Get(reply, "output_text") >>))

\* the response of the no-tool path
DirectResponse(v, reply) ==
  IF v = "completions"
  THEN LET assistantMessage == ChoiceMessage(reply) IN
       IF Falsy(assistantMessage) \/ Falsy(Get(assistantMessage, "content"))
       THEN errorResponse("Failed to get response content from OpenAI.", 500)
       ELSE JsonResponse(assistantMessage)
  ELSE LET output == FirstOf(Get(reply, "output"))
           outputText == Get(reply, "output_text")
       IN IF Falsy(output) \/ Falsy(outputText)
          THEN errorResponse("Failed to get response content from OpenAI.", 500)
          ELSE JsonResponse(JObj(<<"role", "content">>, <<JStr("assistant"), outputText>>))

\* the role "tool" message built from one ToolResult
ToolMessage(result) ==
  JObj(<<"role", "tool_call_id", "content">>,
       << JStr("tool"), Get(result, "id"),
          JStr(IF ~Falsy(Get(result, "error"))
               THEN JSONStringify(JObj(<<"error">>, <<Get(result, "error")>>))
               ELSE JSONStringify(Get(result, "result"))) >>)

\* the assistant entry added to the history before the tool messages
\*   completions: assistantMessage itself
\*   responses:   { role: "assistant", content: outputText }
AssistantEntry(v, reply) ==
  IF v = "completions" THEN ChoiceMessage(reply)
  ELSE JObj(<<"role", "content">>, <<JStr("assistant"), Get(reply, "output_text")>>)

\* faulty variant of UpdatedMessages: only the calls that succeeded are folded in
UpdatedMessagesSuccessOnly(v, msgs, reply, results) ==
  JArr(msgs.items \o <<AssistantEntry(v, reply)>>
       \o MapSeq(SelectSeq(results, LAMBDA r : Get(r, "error") = JUndef), ToolMessage))

\* updatedMessages
UpdatedMessages(v, msgs, reply, results) ==
  JArr(msgs.items \o <<AssistantEntry(v, reply)>> \o MapSeq(results, ToolMessage))

\* the response after the second completion has returned
FinalResponse(v, reply) ==
  IF v = "completions"
  THEN LET finalAssistantMessage == ChoiceMessage(reply) IN
       IF Falsy(finalAssistantMessage)
       THEN errorResponse("Failed to get final response from OpenAI.", 500)
       ELSE JsonResponse(finalAssistantMessage)
  ELSE LET finalOutput == FirstOf(Get(reply, "output"))
           finalOutputText == Get(reply, "output_text")
       IN IF Falsy(finalOutput) \/ Falsy(finalOutputText)
          THEN errorResponse("Failed to get final response from OpenAI.", 500)
          ELSE JsonResponse(JObj(<<"role", "content">>, <<JStr("assistant"), finalOutputText>>))

---------------------------------------------------------------------------
(* Inputs: request bodies and provider replies, drawn from small sets *)

SeqsUpTo(S, n) == UNION {[1..k -> S] : k \in 0..n}

Msg(keys, vals) == JObj(keys, vals)

UserMsg == Msg(<<"role", "content">>, <<JStr("user"), JStr("What's in a carbonara?")>>)

ToolMsgWithId == Msg(<<"role", "tool_call_id">>, <<JStr("tool"), JStr("call_0")>>)

ToolMsgContentNoId == Msg(<<"role", "content">>, <<JStr("tool"), JStr("{}")>>)

ToolMsgBare == Msg(<<"role">>, <<JStr("tool")>>)

ToolMsgNumericId == Msg(<<"role", "tool_call_id">>, <<JStr("tool"), JNum(7)>>)

AssistantNoContent == Msg(<<"role", "content">>, <<JStr("assistant"), JNull>>)

NoRoleMsg == Msg(<<"content">>, <<JStr("hi")>>)

\* the elements a messages array is built from
MessagePool ==
  { UserMsg, ToolMsgWithId, ToolMsgContentNoId, ToolMsgBare, ToolMsgNumericId,
    AssistantNoContent, NoRoleMsg, JNull, JNum(5) }

Body(msgs) == JObj(<<"messages">>, <<msgs>>)

\* what `await request.json()` can yield
RequestPool ==
  { Rejected(PlainError("Unexpected token h in JSON at position 0")),
    Fulfilled(JNull), Fulfilled(JNum(5)), Fulfilled(JObj(<<>>, <<>>)),
    Fulfilled(Body(JNull)), Fulfilled(Body(JStr("hi"))), Fulfilled(Body(JObj(<<>>, <<>>))) }
  \cup { Fulfilled(Body(JArr(ms))) : ms \in SeqsUpTo(MessagePool, MaxMsgs) }

\* the errors a provider call can be rejected with
ProviderErrors ==
  { ErrorObject(TRUE, TRUE, "429 Rate limit reached"),
    ErrorObject(FALSE, TRUE, "connect ECONNREFUSED"),
    ErrorObject(FALSE, TRUE, "socket hang up"),
    ErrorObject(FALSE, FALSE, "Connection error.") }

\* the function invocations a reply may request: tool name and raw arguments
CallPool ==
  { <<"getNutritionInfo", "{\"food\":\"apple\"}">>,
    <<"getNutritionInfo", "{\"food\":\"kiwi\"">>,
    <<"getNutritionInfo", "null">>,
    <<"getWeather", "{\"city\":\"Paris\"}">>,
    <<"getWeather", "{city}">> }

\* the identifiers the provider gives the calls of one reply
CallIds == <<"call_a", "call_b", "call_c", "call_d">>

\* a call in the completions convention: name and arguments under `function`
NestedCall(id, call) ==
  JObj(<<"id", "type", "function">>,
       <<JStr(id), JStr("function"),
         JObj(<<"name", "arguments">>, <<JStr(call[1]), JStr(call[2])>>)>>)

\* a call in the responses convention: name and arguments at top level
FunctionCallItem(id, call) ==
  JObj(<<"type", "id", "name", "arguments">>,
       <<JStr("function_call"), JStr(id), JStr(call[1]), JStr(call[2])>>)

MessageItem == JObj(<<"type", "role">>, <<JStr("message"), JStr("assistant")>>)

\* the batches a completions reply may carry
Batches ==
  { [i \in 1..Len(cs) |-> NestedCall(CallIds[i], cs[i])] :
      cs \in SeqsUpTo(CallPool, MaxCalls) \ {<<>>} }

Completion(choices) == JObj(<<"choices">>, <<JArr(choices)>>)

Choice(message) == JObj(<<"message">>, <<message>>)

AssistantReply(content) == JObj(<<"role", "content">>, <<JStr("assistant"), content>>)

AssistantCalls(content, calls) ==
  JObj(<<"role", "content", "tool_calls">>, <<JStr("assistant"), content, JArr(calls)>>)

\* completions: replies that request no tool
PlainCompletions ==
  { Completion(<<>>) }
  \cup { Completion(<<Choice(AssistantReply(c))>>) : c \in {JStr("Hello"), JStr(""), JNull} }
  \cup { Completion(<<Choice(AssistantCalls(JStr("Hello"), <<>>))>>) }

\* completions: what the first call can return
FirstCompletions ==
  PlainCompletions
  \cup { Completion(<<Choice(AssistantCalls(JNull, batch))>>) : batch \in Batches }

\* completions: what the second call can return
SecondCompletions ==
  PlainCompletions
  \cup { Completion(<<Choice(AssistantCalls(c, <<NestedCall("call_z", <<"lookupRecipe", "{}">>)>>))>>) :
           c \in {JNull, JStr("One moment")} }

ResponseObject(output, text) ==
  JObj(<<"output", "output_text">>, <<JArr(output), JStr(text)>>)

\* responses: the items an output list is built from
OutputItems ==
  { MessageItem }
  \cup { FunctionCallItem("call_a", c) :
           c \in { <<"lookupRecipe", "{\"query\":\"carbonara\"}">>,
                   <<"getNutritionInfo", "{\"food\":\"kiwi\"">>,
                   <<"getWeather", "{\"city\":\"Paris\"}">> } }

\* responses: output_text is gathered from the message items, so it is empty
\* when there is none
ResponsesReplies ==
  { ResponseObject(out, text) :
      out \in SeqsUpTo(OutputItems, MaxCalls), text \in {"", "Hello"} } \
  { ResponseObject(out, "Hello") :
      out \in { o \in SeqsUpTo(OutputItems, MaxCalls) : \A i \in 1..Len(o) : o[i] # MessageItem } }

\* what a provider call of handler v can return or throw
FirstReplies(v) ==
  { Rejected(e) : e \in ProviderErrors }
  \cup { Fulfilled(r) : r \in IF v = "completions" THEN FirstCompletions ELSE ResponsesReplies }

SecondReplies(v) ==
  { Rejected(e) : e \in ProviderErrors }
  \cup { Fulfilled(r) : r \in IF v = "completions" THEN SecondCompletions ELSE ResponsesReplies }

---------------------------------------------------------------------------
(* The turn *)

Init ==
  /\ variant \in {"completions", "responses"}
  /\ apiKey \in BOOLEAN
  /\ toolRegistry = RegisteredAtStartup
  /\ pc = "Idle"
  /\ request = NoReply
  /\ messages = JUndef
  /\ providerInputs = <<>>
  /\ executorCalls = 0
  /\ firstReply = NoReply
  /\ toolCalls = <<>>
  /\ callState = <<>>
  /\ toolResults = <<>>
  /\ settleOrder = <<>>
  /\ finalReply = NoReply
  /\ response = NoResponse

\* faulty variant of RejectMissingKey: the body is read before the key is looked at
RejectMissingKeyAfterRead ==
  /\ pc = "Idle"
  /\ ~apiKey
  /\ pc' = "Validating"
  /\ \E req \in RequestPool : request' = req
  /\ UNCHANGED <<variant, apiKey, toolRegistry, messages, providerInputs, executorCalls,
                 firstReply, toolCalls, callState, toolResults, settleOrder, finalReply,
                 response>>

\* if (!apiKey) return errorResponse(...)
RejectMissingKey ==
  /\ pc = "Idle"
  /\ ~apiKey
  /\ pc' = "Error"
  /\ response' = errorResponse("Server configuration error: Missing API key.", 500)
  /\ UNCHANGED <<variant, apiKey, toolRegistry, request, messages, providerInputs,
                 executorCalls, firstReply, toolCalls, callState, toolResults,
                 settleOrder, finalReply>>

\* await request.json()
Receive ==
  /\ pc = "Idle"
  /\ apiKey
  /\ pc' = "Validating"
  /\ \E req \in RequestPool : request' = req
  /\ UNCHANGED <<variant, apiKey, toolRegistry, messages, providerInputs, executorCalls,
                 firstReply, toolCalls, callState, toolResults, settleOrder, finalReply,
                 response>>

\* validation fails (or throws): the turn ends without a provider call
ValidateReject ==
  /\ pc = "Validating"
  /\ ValidationResponse(request) # NoResponse
  /\ pc' = "Error"
  /\ response' = ValidationResponse(request)
  /\ UNCHANGED <<variant, apiKey, toolRegistry, request, messages, providerInputs,
                 executorCalls, firstReply, toolCalls, callState, toolResults,
                 settleOrder, finalReply>>

\* validation passes: the first completion is requested
ValidateAccept ==
  /\ pc = "Validating"
  /\ ValidationResponse(request) = NoResponse
  /\ messages' = Get(request.value, "messages")
  /\ providerInputs' =
       IssueCompletion(providerInputs, ProviderRequest(messages', ProviderTools(toolRegistry)))
  /\ pc' = "FirstCompletion"
  /\ UNCHANGED <<variant, apiKey, toolRegistry, request, executorCalls, firstReply,
                 toolCalls, callState, toolResults, settleOrder, finalReply, response>>

\* the first completion is rejected: the catch block answers
FirstCompletionFails ==
  /\ pc = "FirstCompletion"
  /\ \E reply \in FirstReplies(variant) :
       /\ reply.threw
       /\ firstReply' = reply
       /\ pc' = "Error"
       /\ response' = CatchResponse(reply.error)
       /\ UNCHANGED <<variant, apiKey, toolRegistry, request, messages, providerInputs,
                      executorCalls, toolCalls, callState, toolResults, settleOrder, finalReply>>

\* the first reply requests no tool: answer from it
FirstCompletionDirect ==
  /\ pc = "FirstCompletion"
  /\ \E reply \in FirstReplies(variant) :
       /\ ~reply.threw
       /\ ExtractToolCalls(variant, reply.value) = <<>>
       /\ firstReply' = reply
       /\ response' = DirectResponse(variant, reply.value)
       /\ pc' = IF response'.status = 200 THEN "Respond" ELSE "Error"
       /\ UNCHANGED <<variant, apiKey, toolRegistry, request, messages, providerInputs,
                      executorCalls, toolCalls, callState, toolResults, settleOrder, finalReply>>

\* the first reply requests tools: executeToolCalls is entered
FirstCompletionDispatch ==
  /\ pc = "FirstCompletion"
  /\ \E reply \in FirstReplies(variant) :
       /\ ~reply.threw
       /\ ExtractToolCalls(variant, reply.value) # <<>>
       /\ firstReply' = reply
       /\ toolCalls' = ExtractToolCalls(variant, reply.value)
       /\ callState' = [i \in 1..Len(ExtractToolCalls(variant, reply.value)) |-> Unstarted]
       /\ executorCalls' = executorCalls + 1
       /\ pc' = "ToolDispatch"
       /\ UNCHANGED <<variant, apiKey, toolRegistry, request, messages, providerInputs,
                      toolResults, settleOrder, finalReply, response>>

\* the callbacks that toolCalls.map has not yet invoked
NotStarted == { i \in 1..Len(callState) : callState[i].status = "unstarted" }

\* faulty variant of CanResume: each callback is awaited before the next one is started
CanResumeEarly(i) == callState[i].status = "pending"

\* a suspended callback is resumed only by the event loop, that is once the
\* synchronous toolCalls.map(...) has invoked every callback
CanResume(i) == callState[i].status = "pending" /\ NotStarted = {}

\* toolCalls.map invokes the next callback, which runs up to its first await
StartCall ==
  /\ pc = "ToolDispatch"
  /\ NotStarted # {}
  /\ LET i == CHOOSE k \in NotStarted : \A j \in NotStarted : k <= j
         started == CallbackStart(variant, toolRegistry, toolCalls[i])
     IN
       /\ callState' = [callState EXCEPT ![i] = started]
       /\ settleOrder' = IF started.status = "settled" THEN Append(settleOrder, i)
                         ELSE settleOrder
  /\ UNCHANGED <<variant, apiKey, toolRegistry, pc, request, messages, providerInputs,
                 executorCalls, firstReply, toolCalls, toolResults, finalReply, response>>

\* the promise awaited by callback i settles and the callback runs to its end
ResumeCall ==
  /\ pc = "ToolDispatch"
  /\ \E i \in 1..Len(callState) :
       /\ CanResume(i)
       /\ callState' = [callState EXCEPT ![i] =
                          Resumed(CallbackResume(toolCalls[i], callState[i].result,
                                                 callState[i].awaited),
                                  callState[i].awaited)]
       /\ settleOrder' = Append(settleOrder, i)
  /\ UNCHANGED <<variant, apiKey, toolRegistry, pc, request, messages, providerInputs,
                 executorCalls, firstReply, toolCalls, toolResults, finalReply, response>>

\* faulty variant of ExecutorReturn: the handler goes on as soon as one call has settled
ExecutorReturnOnFirstSettled ==
  /\ pc = "ToolDispatch"
  /\ \E i \in 1..Len(callState) : callState[i].status = "settled"
  /\ LET toolResultsNow ==
           PromiseAll([i \in 1..Len(callState) |-> callState[i].result], settleOrder)
     IN /\ toolResults' = toolResultsNow
        /\ providerInputs' =
             IssueCompletion(providerInputs,
                             ProviderRequest(UpdatedMessages(variant, messages, firstReply.value,
                                                             toolResultsNow),
                                             ProviderTools(toolRegistry)))
  /\ pc' = "SecondCompletion"
  /\ UNCHANGED <<variant, apiKey, toolRegistry, request, messages, executorCalls,
                 firstReply, toolCalls, callState, settleOrder, finalReply, response>>

\* Promise.all resolves, the history is extended, the second completion requested
ExecutorReturn ==
  /\ pc = "ToolDispatch"
  /\ \A i \in 1..Len(callState) : callState[i].status = "settled"
  /\ LET toolResultsNow ==
           PromiseAll([i \in 1..Len(callState) |-> callState[i].result], settleOrder)
     IN /\ toolResults' = toolResultsNow
        /\ providerInputs' =
             IssueCompletion(providerInputs,
                             ProviderRequest(UpdatedMessages(variant, messages, firstReply.value,
                                                             toolResultsNow),
                                             ProviderTools(toolRegistry)))
  /\ pc' = "SecondCompletion"
  /\ UNCHANGED <<variant, apiKey, toolRegistry, request, messages, executorCalls,
                 firstReply, toolCalls, callState, settleOrder, finalReply, response>>

\* the second completion is rejected: the catch block answers
SecondCompletionFails ==
  /\ pc = "SecondCompletion"
  /\ \E reply \in SecondReplies(variant) :
       /\ reply.threw
       /\ finalReply' = reply
       /\ pc' = "Error"
       /\ response' = CatchResponse(reply.error)
       /\ UNCHANGED <<variant, apiKey, toolRegistry, request, messages, providerInputs,
                      executorCalls, firstReply, toolCalls, callState, toolResults, settleOrder>>

\* faulty variant of SecondCompletionReturns: a second reply that requests tools is
\* dispatched again
SecondCompletionRedispatch ==
  /\ pc = "SecondCompletion"
  /\ \E reply \in SecondReplies(variant) :
       /\ ~reply.threw
       /\ finalReply' = reply
       /\ IF ExtractToolCalls(variant, reply.value) # <<>>
          THEN /\ pc' = "ToolDispatch"
               /\ response' = response
          ELSE /\ response' = FinalResponse(variant, reply.value)
               /\ pc' = IF response'.status = 200 THEN "Respond" ELSE "Error"
       /\ UNCHANGED <<variant, apiKey, toolRegistry, request, messages, providerInputs,
                      executorCalls, firstReply, toolCalls, callState, toolResults, settleOrder>>

\* the second completion returns: the handler answers from it
SecondCompletionReturns ==
  /\ pc = "SecondCompletion"
  /\ \E reply \in SecondReplies(variant) :
       /\ ~reply.threw
       /\ finalReply' = reply
       /\ response' = FinalResponse(variant, reply.value)
       /\ pc' = IF response'.status = 200 THEN "Respond" ELSE "Error"
       /\ UNCHANGED <<variant, apiKey, toolRegistry, request, messages, providerInputs,
                      executorCalls, firstReply, toolCalls, callState, toolResults, settleOrder>>

Next ==
  \/ RejectMissingKey
  \/ Receive
  \/ ValidateReject
  \/ ValidateAccept
  \/ FirstCompletionFails
  \/ FirstCompletionDirect
  \/ FirstCompletionDispatch
  \/ StartCall
  \/ ResumeCall
  \/ ExecutorReturn
  \/ SecondCompletionFails
  \/ SecondCompletionReturns

Spec == Init /\ [][Next]_vars

---------------------------------------------------------------------------
(* Properties *)

\* the result of a call executed on its own: its callback run from start to end
RunAlone(v, reg, toolCall) ==
  LET started == CallbackStart(v, reg, toolCall) IN
  IF started.status = "settled" THEN started.result
  ELSE CallbackResume(toolCall, started.result, started.awaited)

\* the turn has left executeToolCalls only through its return
ExecutorNeverThrows ==
  /\ (pc = "ToolDispatch" => response = NoResponse)
  /\ (executorCalls >= 1 /\ pc \in {"Respond", "Error"} => finalReply # NoReply)

\* the raw argument text of a call is not valid JSON
HasMalformedArguments(toolCall) == ~JSONParse(ReadArguments(variant, toolCall)).ok

\* the requested tool name of a call, as text
RequestedName(toolCall) == JSToString(ReadToolName(variant, toolCall).value)

\* the requested tool name of a call is not a key of the registry
NameNotRegistered(toolCall) == MapIndex(toolRegistry, RequestedName(toolCall)) = 0

\* text begins with prefix
StartsWith(text, prefix) ==
  Len(text) >= Len(prefix) /\ SubSeq(text, 1, Len(prefix)) = prefix

\* C1: when executeToolCalls has returned, whatever the order in which the
\* calls completed, the result list is as long as the batch and its i-th
\* result carries the identifier of the i-th request.
C1_ResultPerRequestInOrder ==
  pc = "SecondCompletion" =>
    /\ Len(toolResults) = Len(toolCalls)
    /\ \A i \in 1..Len(toolCalls) : Get(toolResults[i], "id") = Get(toolCalls[i], "id")

\* a returned batch of two awaited executions, the second of which completed first
C1_Witness ==
  /\ pc = "SecondCompletion"
  /\ Len(toolCalls) = 2
  /\ callState[1].resumed /\ callState[2].resumed
  /\ settleOrder = <<2, 1>>

\* C2: a turn makes at most two provider calls and enters the executor at most
\* once; a rejected first completion ends the turn after one call, and once the
\* second reply is in (even one that requests tools again) the turn is over
\* with exactly two calls made.
C2_AtMostTwoCompletionsOneDispatch ==
  /\ Len(providerInputs) <= 2
  /\ executorCalls <= 1
  /\ (firstReply.threw => pc = "Error" /\ Len(providerInputs) = 1 /\ executorCalls = 0)
  /\ (finalReply # NoReply =>
        pc \in {"Respond", "Error"} /\ Len(providerInputs) = 2 /\ executorCalls = 1)

\* the second reply requests tools again and the turn has ended
C2_Witness ==
  /\ ~finalReply.threw
  /\ finalReply # NoReply
  /\ ExtractToolCalls(variant, finalReply.value) # <<>>
  /\ pc \in {"Respond", "Error"}

\* C3: in a turn that went through tool dispatch, a success response is an
\* assistant message with non-empty text content that carries no tool calls.
C3_SuccessAfterDispatchIsFinalText ==
  (executorCalls = 1 /\ response.status = 200) =>
    /\ IsString(Get(response.body, "content"))
    /\ Get(response.body, "content").s # ""
    /\ Get(response.body, "tool_calls") = JUndef

\* the text content of a provider reply, as each convention carries it
ReplyText(v, reply) ==
  IF v = "completions" THEN OptGet(ChoiceMessage(reply), "content")
  ELSE Get(reply, "output_text")

\* C4: when the second completion fails, or its reply has empty or absent text
\* content, the turn ends with an {error} response of status 5xx.
C4_EmptySecondReplyIsError ==
  (finalReply # NoReply /\ (finalReply.threw \/ Falsy(ReplyText(variant, finalReply.value)))) =>
    /\ response.status >= 500
    /\ Get(response.body, "error") # JUndef

\* the body is an object whose messages are a non-empty array of objects
WellFormedHistory(body) ==
  /\ body.kind = "object"
  /\ IsArray(Get(body, "messages"))
  /\ Len(Get(body, "messages").items) > 0
  /\ \A i \in 1..Len(Get(body, "messages").items) : Get(body, "messages").items[i].kind = "object"

\* some message of the history has role "tool" and no tool-call identifier
HasToolMessageWithoutId(body) ==
  \E i \in 1..Len(Get(body, "messages").items) :
    /\ Get(Get(body, "messages").items[i], "role") = JStr("tool")
    /\ Get(Get(body, "messages").items[i], "tool_call_id") = JUndef

\* C5: once validation is over, a history (of message objects) that contains a
\* role "tool" message without tool-call identifier, whatever its content, has
\* been answered with 400 and no provider call was made.
C5_ToolMessageWithoutIdRejected ==
  ( /\ pc \notin {"Idle", "Validating"}
    /\ apiKey /\ ~request.threw
    /\ WellFormedHistory(request.value)
    /\ HasToolMessageWithoutId(request.value) ) =>
    /\ response.status = 400
    /\ providerInputs = <<>>

\* the test of the claim on one element of messages; an element that is not an
\* object fails it
PassesMessageTest(m) ==
  /\ m.kind = "object"
  /\ IsString(Get(m, "role"))
  /\ \/ IsString(Get(m, "content"))
     \/ Get(m, "role") = JStr("tool") /\ IsString(Get(m, "tool_call_id"))

\* the body is one the claim says is answered with 400
MustBeRejected(body) ==
  \/ ~IsArray(Get(body, "messages"))
  \/ Len(Get(body, "messages").items) = 0
  \/ \E i \in 1..Len(Get(body, "messages").items) :
       ~PassesMessageTest(Get(body, "messages").items[i])

\* C6: once validation is over, a body (a JSON object) with no messages, with
\* messages that are not a list or are empty, or with an element that fails
\* the test, has been answered with 400 with no provider call and no tool
\* execution; any other body has not been answered with 400.
C6_ValidationDecides400 ==
  ( /\ pc \notin {"Idle", "Validating"}
    /\ apiKey /\ ~request.threw
    /\ request.value.kind = "object" ) =>
    /\ MustBeRejected(request.value) =>
         response.status = 400 /\ providerInputs = <<>> /\ executorCalls = 0
    /\ ~MustBeRejected(request.value) => response.status # 400

\* C7: in a returned batch, a call whose arguments are not valid JSON has a null
\* result and an error that begins "Invalid tool arguments: "; every call of
\* the batch has the result it has when executed on its own; and the executor
\* returned normally.
C7_MalformedArgumentsIsolated ==
  /\ ExecutorNeverThrows
  /\ pc = "SecondCompletion" =>
       \A i \in 1..Len(toolCalls) :
         /\ HasMalformedArguments(toolCalls[i]) =>
              /\ Get(toolResults[i], "result") = JNull
              /\ IsString(Get(toolResults[i], "error"))
              /\ StartsWith(Get(toolResults[i], "error").s, "Invalid tool arguments: ")
         /\ toolResults[i] = RunAlone(variant, toolRegistry, toolCalls[i])

\* a returned batch whose first call is malformed and whose second call succeeded
C7_Witness ==
  /\ pc = "SecondCompletion"
  /\ Len(toolCalls) = 2
  /\ HasMalformedArguments(toolCalls[1])
  /\ Get(toolResults[2], "error") = JUndef
  /\ Get(toolResults[2], "result") # JNull

\* C8 as stated: in a returned batch, every call whose tool name is not
\* registered has the error "Tool not found: <name>".
C8_UnknownToolAlwaysNotFound ==
  pc = "SecondCompletion" =>
    \A i \in 1..Len(toolCalls) :
      NameNotRegistered(toolCalls[i]) =>
        Get(toolResults[i], "error") = JStr("Tool not found: " \o RequestedName(toolCalls[i]))

\* C8 amended: in a returned batch, every call whose arguments are valid JSON
\* and whose tool name is not registered has a null result and the error
\* "Tool not found: <name>"; and the executor never throws.
C8_UnknownToolWithValidArguments ==
  /\ (pc = "ToolDispatch" => response = NoResponse)
  /\ pc = "SecondCompletion" =>
       \A i \in 1..Len(toolCalls) :
         (NameNotRegistered(toolCalls[i]) /\ ~HasMalformedArguments(toolCalls[i])) =>
           /\ Get(toolResults[i], "error") = JStr("Tool not found: " \o RequestedName(toolCalls[i]))
           /\ Get(toolResults[i], "result") = JNull

\* a returned batch with a call to an unregistered tool with valid arguments
C8_Witness ==
  /\ pc = "SecondCompletion"
  /\ \E i \in 1..Len(toolCalls) :
       /\ NameNotRegistered(toolCalls[i])
       /\ ~HasMalformedArguments(toolCalls[i])
       /\ Get(toolResults[i], "error") = JStr("Tool not found: getWeather")

\* C9: no callback is resumed from its await before every callback of the
\* batch has been started; no call is left out or cancelled; and whichever
\* calls fail, each call of a returned batch has the result it has when run
\* alone.
C9_CallsStartedTogetherAndIndependent ==
  /\ (\E i \in 1..Len(callState) : callState[i].resumed) => NotStarted = {}
  /\ pc = "SecondCompletion" =>
       \A i \in 1..Len(toolCalls) :
         /\ callState[i].status = "settled"
         /\ toolResults[i] = RunAlone(variant, toolRegistry, toolCalls[i])

\* a returned batch whose first call threw in its tool and whose second succeeded
C9_Witness ==
  /\ pc = "SecondCompletion"
  /\ Len(toolCalls) = 2
  /\ callState[1].resumed /\ callState[1].awaited.threw
  /\ callState[2].resumed /\ Get(toolResults[2], "error") = JUndef

\* every function invocation the first reply requests, in order
RequestedCalls(v, reply) ==
  IF v = "completions" THEN ExtractToolCalls(v, reply)
  ELSE SelectSeq(Get(reply, "output").items, LAMBDA item : Get(item, "type") = JStr("function_call"))

\* the history entry still carries the requested calls: it is the reply's
\* message with its tool_calls, or it names each requested call's identifier
CarriesToolCalls(entry, requested) ==
  \/ Get(entry, "tool_calls") = JArr(requested)
  \/ /\ IsArray(Get(entry, "tool_calls"))
     /\ \A k \in 1..Len(requested) :
          \E c \in 1..Len(Get(entry, "tool_calls").items) :
            Get(Get(entry, "tool_calls").items[c], "id") = Get(requested[k], "id")

\* C10: the history of the second provider call is the client's messages, then
\* the assistant reply with its tool-call metadata, then one role "tool"
\* message per requested call, in request order, each with that call's id.
C10_SecondHistoryExact ==
  Len(providerInputs) = 2 =>
    LET sent == providerInputs[2].input.items
        n == Len(messages.items)
        requested == RequestedCalls(variant, firstReply.value)
    IN /\ Len(sent) = n + 1 + Len(requested)
       /\ SubSeq(sent, 1, n) = messages.items
       /\ CarriesToolCalls(sent[n + 1], requested)
       /\ \A k \in 1..Len(requested) :
            /\ Get(sent[n + 1 + k], "role") = JStr("tool")
            /\ Get(sent[n + 1 + k], "tool_call_id") = Get(requested[k], "id")

\* C11: once a first reply that requests function invocations has been
\* handled, the turn has entered tool dispatch and the dispatched batch is
\* every invocation the reply requests, each once and in order.
C11_EveryRequestedCallDispatched ==
  ( /\ pc \notin {"Idle", "Validating", "FirstCompletion"}
    /\ firstReply # NoReply /\ ~firstReply.threw
    /\ RequestedCalls(variant, firstReply.value) # <<>> ) =>
    /\ executorCalls = 1
    /\ toolCalls = RequestedCalls(variant, firstReply.value)

---------------------------------------------------------------------------
(* The fold of tool results into role "tool" messages, as a function of the *)
(* ToolResults the executor's two return paths can build                   *)

\* ToolResults: { id, result } with a truthy payload, or { id, result: null,
\* error } with the message of whatever the tool threw (an Error's message may
\* be the empty string)
ToolResultPool ==
  LET calls == { JObj(<<"id">>, <<JStr(id)>>) : id \in {"call_a", "call_b"} } IN
  { OkResult(c, payload) :
      c \in calls,
      payload \in { JStr("ok"), JNum(1), JObj(<<"found">>, <<JBool(FALSE)>>) } }
  \cup { ErrorResult(c, m) :
           c \in calls,
           m \in { "", "Tool not found: getWeather", "Invalid tool arguments: Unexpected end of JSON input" } }

\* a batch of results is given
FoldInit ==
  /\ variant \in {"completions", "responses"}
  /\ apiKey = TRUE
  /\ toolRegistry = RegisteredAtStartup
  /\ pc = "Fold"
  /\ request = NoReply
  /\ messages = JArr(<<>>)
  /\ providerInputs = <<>>
  /\ executorCalls = 1
  /\ firstReply = NoReply
  /\ toolCalls = <<>>
  /\ callState = <<>>
  /\ toolResults \in SeqsUpTo(ToolResultPool, MaxCalls) \ {<<>>}
  /\ settleOrder = <<>>
  /\ finalReply = NoReply
  /\ response = NoResponse

\* toolResults.map(result => ({ role: "tool", tool_call_id, content }))
FoldResults ==
  /\ pc = "Fold"
  /\ providerInputs' = <<ProviderRequest(JArr(MapSeq(toolResults, ToolMessage)), <<>>)>>
  /\ pc' = "Folded"
  /\ UNCHANGED <<variant, apiKey, toolRegistry, request, messages, executorCalls, firstReply,
                 toolCalls, callState, toolResults, settleOrder, finalReply, response>>

FoldSpec == FoldInit /\ [][FoldResults]_vars

\* the call of this result failed in the executor: the catch block built it
Failed(result) == KeyIndex(result, "error") # 0

\* C12: the content of the tool message of each result is the JSON text of
\* {error: <message>} exactly when the call failed (whatever the message, the
\* empty one included), and the JSON text of the result payload exactly when
\* the call succeeded.
C12_ToolMessageContent ==
  pc = "Folded" =>
    \A i \in 1..Len(toolResults) :
      LET content == Get(providerInputs[1].input.items[i], "content")
          asError == JStr(JSONStringify(JObj(<<"error">>, <<Get(toolResults[i], "error")>>)))
          asPayload == JStr(JSONStringify(Get(toolResults[i], "result")))
      IN /\ content = asError <=> Failed(toolResults[i])
         /\ content = asPayload <=> ~Failed(toolResults[i])

---------------------------------------------------------------------------
(* Properties of the turn, continued *)

\* a result with a payload and no error field
IsSuccessResult(r) == Get(r, "result") \notin {JNull, JUndef} /\ KeyIndex(r, "error") = 0

\* a result with an error message and a null result
IsFailureResult(r) == IsString(Get(r, "error")) /\ Get(r, "result") = JNull

\* C13: every ToolResult a callback of the executor has returned, and every
\* result of a returned batch, is either a payload without error field or an
\* error message with a null result, and never both or neither.
C13_ResultXorError ==
  /\ \A i \in 1..Len(callState) :
       callState[i].status = "settled" =>
         IsSuccessResult(callState[i].result) # IsFailureResult(callState[i].result)
  /\ \A i \in 1..Len(toolResults) :
       IsSuccessResult(toolResults[i]) # IsFailureResult(toolResults[i])

\* a returned batch with a successful call and a failed call
C13_Witness ==
  /\ pc = "SecondCompletion"
  /\ \E i \in 1..Len(toolResults) : IsSuccessResult(toolResults[i])
  /\ \E i \in 1..Len(toolResults) : IsFailureResult(toolResults[i])

\* C14: the executor never ends the turn, and a turn that dispatched tools and
\* has ended has made the second provider call with the client's messages, the
\* assistant entry and one tool message per call of the batch (failed or not),
\* and its response is the one the second completion alone determines.
C14_ToolFailureNeverAbortsTurn ==
  /\ (pc = "ToolDispatch" => response = NoResponse)
  /\ (executorCalls = 1 /\ pc \in {"Respond", "Error"}) =>
       /\ finalReply # NoReply
       /\ Len(providerInputs) = 2
       /\ Len(providerInputs[2].input.items) = Len(messages.items) + 1 + Len(toolCalls)
       /\ \A k \in 1..Len(toolCalls) :
            LET m == providerInputs[2].input.items[Len(messages.items) + 1 + k] IN
            /\ Get(m, "role") = JStr("tool")
            /\ Get(m, "tool_call_id") = Get(toolCalls[k], "id")
       /\ response = IF finalReply.threw THEN CatchResponse(finalReply.error)
                     ELSE FinalResponse(variant, finalReply.value)

\* a batch of two calls that both failed, in a turn that ended with a success
C14_Witness ==
  /\ pc = "Respond"
  /\ Len(toolCalls) = 2
  /\ \A i \in 1..Len(toolResults) : IsFailureResult(toolResults[i])

\* the first reply is in and requests no function invocation
FirstReplyWithoutCalls ==
  /\ firstReply # NoReply
  /\ ~firstReply.threw
  /\ RequestedCalls(variant, firstReply.value) = <<>>

\* C15: when the first reply requests no tool and has non-empty text, the turn
\* has ended with one provider call, no tool executed and a 200 response that
\* is an assistant message whose content is the reply's text.
C15_DirectReplyPassThrough ==
  (FirstReplyWithoutCalls /\ ~Falsy(ReplyText(variant, firstReply.value))) =>
    /\ pc = "Respond"
    /\ Len(providerInputs) = 1
    /\ executorCalls = 0
    /\ response.status = 200
    /\ Get(response.body, "role") = JStr("assistant")
    /\ Get(response.body, "content") = ReplyText(variant, firstReply.value)

\* a turn answered from a first reply with text and no tool call
C15_Witness ==
  /\ FirstReplyWithoutCalls
  /\ pc = "Respond"
  /\ Get(response.body, "content") = JStr("Hello")

\* C16: when the first reply requests no tool and has no usable text (no
\* message, absent or empty content), the turn has ended with a 500 {error}
\* response, no tool executed and no second provider call.
C16_DirectReplyWithoutText ==
  (FirstReplyWithoutCalls /\ Falsy(ReplyText(variant, firstReply.value))) =>
    /\ pc = "Error"
    /\ response.status = 500
    /\ IsString(Get(response.body, "error"))
    /\ executorCalls = 0
    /\ Len(providerInputs) = 1

\* a turn ended by a first reply with no message at all, or with empty text
C16_Witness ==
  /\ FirstReplyWithoutCalls
  /\ Falsy(ReplyText(variant, firstReply.value))
  /\ pc = "Error"
  /\ response = errorResponse("Failed to get response content from OpenAI.", 500)

\* C17: a turn that has ended has answered either with a 200 whose body is an
\* assistant message with non-empty text content, or with a 4xx/5xx whose body
\* is an {error: <message>} object.
C17_CompleteMessageOrError ==
  pc \in {"Respond", "Error"} =>
    \/ /\ response.status = 200
       /\ Get(response.body, "role") = JStr("assistant")
       /\ IsString(Get(response.body, "content"))
       /\ Get(response.body, "content").s # ""
    \/ /\ response.status \in 400..599
       /\ IsString(Get(response.body, "error"))

\* the error responses a turn can end with
GenericErrorResponses ==
  { errorResponse("Server configuration error: Missing API key.", 500),
    errorResponse("Invalid request body: messages array is required.", 400),
    errorResponse("Invalid message format.", 400),
    errorResponse("Failed to get response content from OpenAI.", 500),
    errorResponse("Failed to get final response from OpenAI.", 500),
    errorResponse("Could not reach OpenAI service.", 500),
    errorResponse("An error occurred while processing your request.", 500) }

\* the error with its detail removed: only its class is left
WithoutDetail(error) == ErrorObject(error.response, error.request, "")

\* C18: the response of a turn that ended in error is one of the fixed generic
\* responses, and when an error was thrown (by the body parser or by a provider
\* call) it is the response of the same error with its detail removed.
C18_NoErrorDetailInResponse ==
  pc = "Error" =>
    /\ response \in GenericErrorResponses
    /\ request.threw => response = CatchResponse(WithoutDetail(request.error))
    /\ firstReply.threw => response = CatchResponse(WithoutDetail(firstReply.error))
    /\ finalReply.threw => response = CatchResponse(WithoutDetail(finalReply.error))

\* a turn ended by a provider error that carries a detail message
C18_Witness ==
  /\ pc = "Error"
  /\ firstReply.threw
  /\ firstReply.error.message = "socket hang up"
  /\ response = errorResponse("Could not reach OpenAI service.", 500)

\* the request was sent and no response came back
IsTransportFailure(error) == error.request /\ ~error.response

\* the response the claim gives a thrown failure
ThrownFailureResponse(error) ==
  IF IsTransportFailure(error) THEN errorResponse("Could not reach OpenAI service.", 500)
  ELSE errorResponse("An error occurred while processing your request.", 500)

\* C19: a failure thrown by the first or the second completion has ended the
\* turn with no further provider call, with "Could not reach OpenAI service."
\* for a transport failure and the generic 500 message otherwise; a failure
\* thrown while the body is read or validated has ended it with the generic
\* 500 message.
C19_TransportFailureMessage ==
  /\ firstReply.threw =>
       /\ pc = "Error" /\ Len(providerInputs) = 1
       /\ response = ThrownFailureResponse(firstReply.error)
  /\ finalReply.threw =>
       /\ pc = "Error" /\ Len(providerInputs) = 2
       /\ response = ThrownFailureResponse(finalReply.error)
  /\ (apiKey /\ pc = "Error" /\ providerInputs = <<>> /\ response.status = 500) =>
       response = errorResponse("An error occurred while processing your request.", 500)

\* a turn ended by a transport failure of the second completion
C19_Witness ==
  /\ finalReply.threw
  /\ IsTransportFailure(finalReply.error)
  /\ pc = "Error"
  /\ response = errorResponse("Could not reach OpenAI service.", 500)

\* C20: without the provider credential the turn is either not begun or ended
\* with 500 "Server configuration error: Missing API key.", the body never
\* read, no provider call made and no tool executed.
C20_MissingKeyAnswer ==
  ~apiKey =>
    /\ pc \in {"Idle", "Error"}
    /\ pc = "Error" =>
         response = errorResponse("Server configuration error: Missing API key.", 500)
    /\ request = NoReply
    /\ messages = JUndef
    /\ providerInputs = <<>>
    /\ executorCalls = 0

\* a request answered without the credential
C20_Witness ==
  /\ ~apiKey
  /\ pc = "Error"
  /\ response.status = 500

---------------------------------------------------------------------------
(* The registry module on its own: registerTool and the three reads, and    *)
(* prepareToolsForOpenAI applied to what the reads return.  pc is the       *)
(* function called last, request its argument, response its return value.  *)

MaxNames == 2

\* definitions a tool module may register: the two shipped ones, a second
\* version of one of them, and a third tool whose execute is absent, resolves
\* to a falsy value or throws
ToolPool ==
  LET weather == [ type |-> "function",
                   function |-> [ name |-> "getWeather",
                                  description |-> "Get the weather of a city",
                                  parameters |-> [ type |-> "object",
                                                   properties |-> <<"city">>,
                                                   required |-> <<"city">>,
                                                   additionalProperties |-> FALSE ] ] ]
  IN { NutritionTool, RecipeTool, weather,
       [NutritionTool EXCEPT !.function.description = "Nutrition facts, second version"] }
     \cup { [execute |-> e] @@ weather :
              e \in { "async () => null", "async () => undefined", "async () => false",
                      "async () => 0", "async () => ''",
                      "async () => { throw new Error('boom') }" } }

\* const toolRegistry = new Map()
RegistryInit ==
  /\ variant = "completions"
  /\ apiKey = TRUE
  /\ toolRegistry = <<>>
  /\ pc = "Loaded"
  /\ request = JUndef
  /\ messages = JUndef
  /\ providerInputs = <<>>
  /\ executorCalls = 0
  /\ firstReply = NoReply
  /\ toolCalls = <<>>
  /\ callState = <<>>
  /\ toolResults = <<>>
  /\ settleOrder = <<>>
  /\ finalReply = NoReply
  /\ response = JUndef

\* registerTool(tool)
CallRegisterTool ==
  /\ pc \notin {"Idle", "Validating", "FirstCompletion", "ToolDispatch", "SecondCompletion"}
  /\ \E tool \in ToolPool :
       /\ toolRegistry' = registerTool(toolRegistry, tool)
       /\ request' = tool
  /\ pc' = "registerTool"
  /\ response' = JUndef
  /\ UNCHANGED <<variant, apiKey, messages, providerInputs, executorCalls, firstReply,
                 toolCalls, callState, toolResults, settleOrder, finalReply>>

\* getTool(name)
CallGetTool ==
  /\ pc \notin {"Idle", "Validating", "FirstCompletion", "ToolDispatch", "SecondCompletion"}
  /\ \E name \in {t.function.name : t \in ToolPool} \cup {"convertUnits"} :
       /\ request' = JStr(name)
       /\ response' = getTool(toolRegistry, JStr(name))
  /\ pc' = "getTool"
  /\ UNCHANGED <<variant, apiKey, toolRegistry, messages, providerInputs, executorCalls,
                 firstReply, toolCalls, callState, toolResults, settleOrder, finalReply>>

\* getAllTools()
CallGetAllTools ==
  /\ pc \notin {"Idle", "Validating", "FirstCompletion", "ToolDispatch", "SecondCompletion"}
  /\ request' = JUndef
  /\ response' = getAllTools(toolRegistry)
  /\ pc' = "getAllTools"
  /\ UNCHANGED <<variant, apiKey, toolRegistry, messages, providerInputs, executorCalls,
                 firstReply, toolCalls, callState, toolResults, settleOrder, finalReply>>

\* getToolDefinitions(toolNames), and getToolDefinitions()
CallGetToolDefinitions ==
  /\ pc \notin {"Idle", "Validating", "FirstCompletion", "ToolDispatch", "SecondCompletion"}
  /\ \E names \in SeqsUpTo({t.function.name : t \in ToolPool} \cup {"convertUnits"}, MaxNames) :
       \E toolNames \in {JUndef, JArr([i \in 1..Len(names) |-> JStr(names[i])])} :
         /\ request' = toolNames
         /\ response' = getToolDefinitions(toolRegistry, toolNames)
  /\ pc' = "getToolDefinitions"
  /\ UNCHANGED <<variant, apiKey, toolRegistry, messages, providerInputs, executorCalls,
                 firstReply, toolCalls, callState, toolResults, settleOrder, finalReply>>

\* prepareToolsForOpenAI(tools), for the tools a read has just returned
CallPrepareTools ==
  /\ pc \in {"getAllTools", "getToolDefinitions"}
  /\ request' = response
  /\ response' = prepareToolsForOpenAI(response)
  /\ pc' = "prepareToolsForOpenAI"
  /\ UNCHANGED <<variant, apiKey, toolRegistry, messages, providerInputs, executorCalls,
                 firstReply, toolCalls, callState, toolResults, settleOrder, finalReply>>

RegistrySpec ==
  RegistryInit /\ [][ CallRegisterTool \/ CallGetTool \/ CallGetAllTools
                      \/ CallGetToolDefinitions \/ CallPrepareTools ]_vars

\* C21: the registry never holds two entries of one name; a registration adds
\* an entry only when the name is new, and straight after it the lookup of the
\* name returns the definition just registered; no other step changes what a
\* lookup returns, so later lookups see the most recent registration.
C21_LastRegistrationWins ==
  /\ [](\A i, j \in 1..Len(toolRegistry) :
          toolRegistry[i].key = toolRegistry[j].key => i = j)
  /\ [][ pc' = "registerTool" =>
           /\ Len(toolRegistry') =
                Len(toolRegistry)
                + (IF MapIndex(toolRegistry, request'.function.name) = 0 THEN 1 ELSE 0)
           /\ getTool(toolRegistry', JStr(request'.function.name)) = request' ]_vars
  /\ [][ pc' # "registerTool" => toolRegistry' = toolRegistry ]_vars

\* the second version of a tool has just been registered over an entry that
\* was inserted before another one
C21_Witness ==
  /\ pc = "registerTool"
  /\ Len(toolRegistry) >= 2
  /\ toolRegistry[1].value = request
  /\ request.function.description = "Nutrition facts, second version"

\* what the claim says getToolDefinitions returns for a list of names: the
\* definition registered under each listed name that is registered, in list order
IsSelectionOf(result, names, reg) ==
  LET present == SelectSeq(names, LAMBDA n : MapIndex(reg, n.s) # 0) IN
  /\ Len(result) = Len(present)
  /\ \A k \in 1..Len(present) :
       /\ result[k].function.name = present[k].s
       /\ result[k] = reg[MapIndex(reg, present[k].s)].value

\* C22 as stated: for every list of names, the empty list included,
\* getToolDefinitions returns the registered definitions of the listed names
\* only, in list order.
C22_SelectionForEveryList ==
  (pc = "getToolDefinitions" /\ IsArray(request)) =>
    IsSelectionOf(response, request.items, toolRegistry)

\* C22 amended: for every non-empty list of names (with unknown or repeated
\* names), getToolDefinitions returns the registered definitions of the listed
\* names only, one per listed occurrence, in list order.
C22_SelectionForNonEmptyList ==
  (pc = "getToolDefinitions" /\ IsArray(request) /\ Len(request.items) > 0) =>
    IsSelectionOf(response, request.items, toolRegistry)

\* a list whose order is the reverse of the registration order
C22_Witness ==
  /\ pc = "getToolDefinitions"
  /\ IsArray(request)
  /\ Len(toolRegistry) >= 2
  /\ Len(response) = 2
  /\ response[1] = toolRegistry[2].value
  /\ response[2] = toolRegistry[1].value

\* C23: getToolDefinitions with no argument or with an empty list returns
\* every registered definition, as getAllTools does.
C23_NoNamesMeansAllTools ==
  (pc = "getToolDefinitions" /\ (request = JUndef \/ request = JArr(<<>>))) =>
    /\ response = getAllTools(toolRegistry)
    /\ Len(response) = Len(toolRegistry)
    /\ \A i \in 1..Len(toolRegistry) : response[i] = toolRegistry[i].value

\* getToolDefinitions() on a registry of three tools
C23_Witness ==
  /\ pc = "getToolDefinitions"
  /\ request = JUndef
  /\ Len(response) = 3

\* C24: straight after registerTool(d), getTool(d.name) is d and getAllTools
\* holds d exactly once; a registration leaves the lookup of every other name
\* as it was; the three reads leave the registry as it was.
C24_RegisterThenRead ==
  /\ [](pc = "registerTool" =>
          /\ getTool(toolRegistry, JStr(request.function.name)) = request
          /\ Cardinality({ i \in 1..Len(getAllTools(toolRegistry)) :
                             getAllTools(toolRegistry)[i] = request }) = 1)
  /\ [][ pc' = "registerTool" =>
           \A name \in ({t.function.name : t \in ToolPool} \cup {"convertUnits"})
                        \ {request'.function.name} :
             getTool(toolRegistry', JStr(name)) = getTool(toolRegistry, JStr(name)) ]_vars
  /\ [][ pc' \in {"getTool", "getAllTools", "getToolDefinitions"} =>
           toolRegistry' = toolRegistry ]_vars

\* a third tool has just been registered
C24_Witness ==
  /\ pc = "registerTool"
  /\ Len(toolRegistry) = 3
  /\ toolRegistry[3].value = request

\* C25: the list prepareToolsForOpenAI returns is as long as its input, and its
\* i-th element is exactly the type and the function of the i-th input, with
\* no execute; the input list still holds the registry's definitions, execute
\* included.
C25_PreparedToolsHaveNoExecute ==
  pc = "prepareToolsForOpenAI" =>
    /\ Len(response) = Len(request)
    /\ \A i \in 1..Len(request) :
         /\ DOMAIN response[i] = {"type", "function"}
         /\ response[i].type = request[i].type
         /\ response[i].function = request[i].function
         /\ request[i] = getTool(toolRegistry, JStr(request[i].function.name))

\* two definitions with execute and one without were prepared
C25_Witness ==
  /\ pc = "prepareToolsForOpenAI"
  /\ Len(request) = 3
  /\ \E i \in 1..3 : "execute" \notin DOMAIN request[i]
  /\ \E i \in 1..3 : "execute" \in DOMAIN request[i]

---------------------------------------------------------------------------
(* Turn after turn: POST is invoked again once a turn has been answered     *)

\* faulty variant of NewTurn: what was sent to the provider is kept between requests
NewTurnKeepingHistory ==
  /\ pc \in {"Respond", "Error"}
  /\ pc' = "Idle"
  /\ request' = NoReply
  /\ messages' = JUndef
  /\ executorCalls' = 0
  /\ firstReply' = NoReply
  /\ toolCalls' = <<>>
  /\ callState' = <<>>
  /\ toolResults' = <<>>
  /\ settleOrder' = <<>>
  /\ finalReply' = NoReply
  /\ response' = NoResponse
  /\ UNCHANGED <<variant, apiKey, toolRegistry, providerInputs>>

\* the next request arrives: POST starts with fresh locals; the module's
\* apiKey and toolRegistry are what they were
NewTurn ==
  /\ pc \in {"Respond", "Error"}
  /\ pc' = "Idle"
  /\ request' = NoReply
  /\ messages' = JUndef
  /\ providerInputs' = <<>>
  /\ executorCalls' = 0
  /\ firstReply' = NoReply
  /\ toolCalls' = <<>>
  /\ callState' = <<>>
  /\ toolResults' = <<>>
  /\ settleOrder' = <<>>
  /\ finalReply' = NoReply
  /\ response' = NoResponse
  /\ UNCHANGED <<variant, apiKey, toolRegistry>>

TurnsSpec == Init /\ [][Next \/ NewTurn]_vars

\* the response the handler computes from this turn's body and provider replies
ResponseOfTurn ==
  IF ~apiKey THEN errorResponse("Server configuration error: Missing API key.", 500)
  ELSE IF ValidationResponse(request) # NoResponse THEN ValidationResponse(request)
  ELSE IF firstReply.threw THEN CatchResponse(firstReply.error)
  ELSE IF ExtractToolCalls(variant, firstReply.value) = <<>>
  THEN DirectResponse(variant, firstReply.value)
  ELSE IF finalReply.threw THEN CatchResponse(finalReply.error)
  ELSE FinalResponse(variant, finalReply.value)

---------------------------------------------------------------------------
(* executeToolCalls on its own: any batch, either call convention, a        *)
(* registry that may hold a third tool                                      *)

\* executeToolCalls has just been entered with a batch
ExecInit ==
  LET calls == { <<"getNutritionInfo", "{\"food\":\"apple\"}">>,
                 <<"getWeather", "{\"city\":\"Paris\"}">>,
                 <<"getWeather", "{city}">> }
      forms == [1..MaxCalls -> { NestedCall(CallIds[i], c) : i \in 1..MaxCalls, c \in calls }
                               \cup { FunctionCallItem(CallIds[i], c) : i \in 1..MaxCalls, c \in calls }]
  IN
  /\ variant \in {"completions", "responses"}
  /\ apiKey = TRUE
  /\ toolRegistry \in {RegisteredAtStartup}
                      \cup { registerTool(RegisteredAtStartup, t) :
                               t \in { u \in ToolPool : u.function.name = "getWeather" } }
  /\ pc = "ToolDispatch"
  /\ messages = JArr(<<UserMsg>>)
  /\ request = Fulfilled(Body(messages))
  /\ providerInputs = <<ProviderRequest(messages, ProviderTools(toolRegistry))>>
  /\ executorCalls = 1
  /\ toolCalls \in { SubSeq(f, 1, n) : n \in 1..MaxCalls,
                     f \in { g \in forms : \A i \in 1..MaxCalls : Get(g[i], "id") = JStr(CallIds[i]) } }
  /\ firstReply = Fulfilled(IF variant = "completions"
                            THEN Completion(<<Choice(AssistantCalls(JNull, toolCalls))>>)
                            ELSE ResponseObject(toolCalls, ""))
  /\ callState = [i \in 1..Len(toolCalls) |-> Unstarted]
  /\ toolResults = <<>>
  /\ settleOrder = <<>>
  /\ finalReply = NoReply
  /\ response = NoResponse

ExecSpec == ExecInit /\ [][StartCall \/ ResumeCall \/ ExecutorReturn]_vars

\* the call is well formed for the handler that executes it: its name can be
\* read, its arguments parse and the name is registered
IsExecutable(toolCall) ==
  /\ ~ReadToolName(variant, toolCall).threw
  /\ JSONParse(ReadArguments(variant, toolCall)).ok
  /\ getTool(toolRegistry, ReadToolName(variant, toolCall).value) # NoTool

\* the registered definition a well-formed call names
ToolOf(toolCall) == getTool(toolRegistry, ReadToolName(variant, toolCall).value)

\* execute functions that resolve to a falsy value
FalsyExecutes ==
  { "async () => null", "async () => undefined", "async () => false",
    "async () => 0", "async () => ''" }

\* C27: a call to a registered tool whose execute is absent or resolves to a
\* falsy value gives { id, result: null, error: "No execute function found
\* for tool: <name>" }; one whose execute throws gives { id, result: null,
\* error: <the thrown message> }; neither depends on anything but the tool.
C27_UnusableExecuteIsErrorResult ==
  pc = "SecondCompletion" =>
    \A i \in 1..Len(toolCalls) :
      IsExecutable(toolCalls[i]) =>
        LET tool == ToolOf(toolCalls[i])
            name == ReadToolName(variant, toolCalls[i]).value
        IN /\ ("execute" \notin DOMAIN tool \/ ("execute" \in DOMAIN tool /\ tool.execute \in FalsyExecutes))
                => toolResults[i] =
                     JObj(<<"id", "result", "error">>,
                          << Get(toolCalls[i], "id"), JNull,
                             JStr("No execute function found for tool: " \o name.s) >>)
           /\ ("execute" \in DOMAIN tool /\ tool.execute = "async () => { throw new Error('boom') }")
                => toolResults[i] =
                     JObj(<<"id", "result", "error">>,
                          <<Get(toolCalls[i], "id"), JNull, JStr("boom")>>)

\* a tool whose execute resolved to 0 was called and reported as having no execute function
C27_Witness ==
  /\ pc = "SecondCompletion"
  /\ \E i \in 1..Len(toolCalls) :
       /\ IsExecutable(toolCalls[i])
       /\ "execute" \in DOMAIN ToolOf(toolCalls[i])
       /\ ToolOf(toolCalls[i]).execute = "async () => 0"
       /\ callState[i].resumed
       /\ Get(toolResults[i], "error") = JStr("No execute function found for tool: getWeather")

\* the same call written in the other convention
OtherConvention(toolCall) ==
  IF Get(toolCall, "function") # JUndef
  THEN JObj(<<"type", "id", "name", "arguments">>,
            << JStr("function_call"), Get(toolCall, "id"),
               Get(Get(toolCall, "function"), "name"),
               Get(Get(toolCall, "function"), "arguments") >>)
  ELSE JObj(<<"id", "type", "function">>,
            << Get(toolCall, "id"), JStr("function"),
               JObj(<<"name", "arguments">>,
                    <<Get(toolCall, "name"), Get(toolCall, "arguments")>>) >>)

\* C28: in either handler the result of a call is the result the same call
\* gives when written in the other convention.
C28_SameResultInEitherConvention ==
  pc = "SecondCompletion" =>
    \A i \in 1..Len(toolCalls) :
      toolResults[i] = RunAlone(variant, toolRegistry, OtherConvention(toolCalls[i]))

\* the responses handler alone does give the same result for the two conventions
C28_ResponsesHandlerAcceptsBoth ==
  (pc = "SecondCompletion" /\ variant = "responses") =>
    \A i \in 1..Len(toolCalls) :
      toolResults[i] = RunAlone(variant, toolRegistry, OtherConvention(toolCalls[i]))

---------------------------------------------------------------------------
(* Order and progress of one turn *)

\* C29: the second provider call exists only when every callback of the batch
\* has settled and its result was gathered, and while the body is being read,
\* a provider call is awaited or a tool call is outstanding no response exists.
C29_NothingSentWhilePending ==
  /\ Len(providerInputs) = 2 =>
       /\ Len(callState) = Len(toolCalls)
       /\ Len(toolResults) = Len(toolCalls)
       /\ \A i \in 1..Len(callState) :
            callState[i].status = "settled" /\ toolResults[i] = callState[i].result
  /\ pc = "ToolDispatch" => Len(providerInputs) = 1
  /\ pc \in {"Validating", "FirstCompletion", "ToolDispatch", "SecondCompletion"} =>
       response = NoResponse

\* one call of a batch has returned while another is still suspended: no
\* second provider call and no response yet
C29_Witness ==
  /\ pc = "ToolDispatch"
  /\ \E i, j \in 1..Len(callState) :
       callState[i].status = "settled" /\ callState[j].status = "pending"
  /\ Len(providerInputs) = 1
  /\ response = NoResponse

\* the handler moves on whenever it can: a provider call or tool execution
\* that is outstanding eventually returns or fails.  This is WF_vars(Next)
\* with ENABLED <<Next>>_vars written out: a step of the turn is possible
\* exactly while the turn has not ended in Respond or Error.
FairSpec == Spec /\ ([]<>(pc \in {"Respond", "Error"}) \/ []<><<Next>>_vars)

\* the steps of the turn's state machine
TurnSteps ==
  { <<"Idle", "Validating">>, <<"Idle", "Error">>,
    <<"Validating", "FirstCompletion">>, <<"Validating", "Error">>,
    <<"FirstCompletion", "Respond">>, <<"FirstCompletion", "ToolDispatch">>,
    <<"FirstCompletion", "Error">>,
    <<"ToolDispatch", "SecondCompletion">>,
    <<"SecondCompletion", "Respond">>, <<"SecondCompletion", "Error">> }

\* C30: the turn changes state only along Validating, FirstCompletion, then
\* Respond or ToolDispatch, SecondCompletion, Respond, or into Error; Respond
\* and Error are never left; and when outstanding calls always return or fail
\* the turn ends in Respond or Error.
C30_TurnStateMachine ==
  /\ [][pc' # pc => <<pc, pc'>> \in TurnSteps]_vars
  /\ [][(pc = "Respond" \/ pc = "Error") => (pc' = pc /\ response' = response)]_vars
  /\ <>(pc \in {"Respond", "Error"})

\* a turn went through ToolDispatch and SecondCompletion and has answered
C30_Witness ==
  /\ pc = "Respond"
  /\ Len(providerInputs) = 2
  /\ finalReply # NoReply
  /\ response.status = 200

\* the name of the call can be read and its argument text is not valid JSON
IsMalformedCall(toolCall) ==
  /\ ~ReadToolName(variant, toolCall).threw
  /\ ~JSONParse(ReadArguments(variant, toolCall)).ok

\* C31: a call with a malformed argument string has the result { id, result:
\* null, error: "Invalid tool arguments: <parse error>" }, the same result it
\* has with an empty registry, and its callback returned without awaiting any
\* execute function, whether or not its tool name is registered.
C31_MalformedArgumentsBeforeLookup ==
  pc = "SecondCompletion" =>
    \A i \in 1..Len(toolCalls) :
      IsMalformedCall(toolCalls[i]) =>
        /\ Get(toolResults[i], "result") = JNull
        /\ StartsWith(Get(toolResults[i], "error").s, "Invalid tool arguments: ")
        /\ toolResults[i] = RunAlone(variant, <<>>, toolCalls[i])
        /\ ~callState[i].resumed
        /\ callState[i].awaited = Resolved(JUndef)

\* a malformed call to a registered tool that has an execute function was answered
C31_Witness ==
  /\ pc = "SecondCompletion"
  /\ \E i \in 1..Len(toolCalls) :
       /\ IsMalformedCall(toolCalls[i])
       /\ StartsWith(Get(toolResults[i], "error").s, "Invalid tool arguments: ")
       /\ getTool(toolRegistry, ReadToolName(variant, toolCalls[i]).value) # NoTool
       /\ "execute" \in DOMAIN getTool(toolRegistry, ReadToolName(variant, toolCalls[i]).value)

---------------------------------------------------------------------------
(* The two shipped tools, called through executeToolCalls                   *)

\* executeToolCalls has just been entered with one call to a shipped tool
LookupInit ==
  LET foods == { "apple", "Apple", "BANANA", "chicken breast", "Rice", "pasta",
                 "kiwi", "app", "" }
      units == { "", ",\"unit\":\"100g\"", ",\"unit\":\"serving\"", ",\"unit\":\"piece\"",
                 ",\"unit\":null" }
      queries == { "eggs, bacon, pasta", "egg, baco, pasta", "stir fry", "Stir Fry", "cookies",
                   "pasta", "sushi", "eggs,", "flour,salt", "rice, xyz, abc", "" }
      difficulties == { "", ",\"filterByDifficulty\":\"easy\"",
                        ",\"filterByDifficulty\":\"medium\"",
                        ",\"filterByDifficulty\":\"hard\"", ",\"filterByDifficulty\":null" }
      calls == { <<ToolNameNUTRITION_INFO, "{\"food\":\"" \o f \o "\"" \o u \o "}">> :
                   f \in foods, u \in units }
               \cup { <<ToolNameRECIPE_LOOKUP, "{\"query\":\"" \o q \o "\"" \o d \o "}">> :
                        q \in queries, d \in difficulties }
  IN
  /\ variant \in {"completions", "responses"}
  /\ apiKey = TRUE
  /\ toolRegistry = RegisteredAtStartup
  /\ pc = "ToolDispatch"
  /\ messages = JArr(<<UserMsg>>)
  /\ request = Fulfilled(Body(messages))
  /\ providerInputs = <<ProviderRequest(messages, ProviderTools(toolRegistry))>>
  /\ executorCalls = 1
  /\ toolCalls \in { <<IF variant = "completions" THEN NestedCall(CallIds[1], c)
                       ELSE FunctionCallItem(CallIds[1], c)>> : c \in calls }
  /\ firstReply = Fulfilled(IF variant = "completions"
                            THEN Completion(<<Choice(AssistantCalls(JNull, toolCalls))>>)
                            ELSE ResponseObject(toolCalls, ""))
  /\ callState = <<Unstarted>>
  /\ toolResults = <<>>
  /\ settleOrder = <<>>
  /\ finalReply = NoReply
  /\ response = NoResponse

LookupSpec == LookupInit /\ [][StartCall \/ ResumeCall \/ ExecutorReturn]_vars

\* the one call of the batch: its tool, its parsed arguments, its ToolResult
CalledTool == ReadToolName(variant, toolCalls[1]).value.s

CalledWith == JSONParse(ReadArguments(variant, toolCalls[1])).val

\* the executor reported the call as a success and this is its payload
Payload == Get(toolResults[1], "result")

IsReportedSuccess ==
  /\ Get(toolResults[1], "error") = JUndef
  /\ Get(toolResults[1], "id") = Get(toolCalls[1], "id")
  /\ Payload # JNull

\* the dataset entries whose key is the asked food, letter case aside
StoredFoods(food) ==
  { i \in 1..Len(nutritionDatabase) : ToLowerCase(nutritionDatabase[i].key) = ToLowerCase(food) }

\* the payload carries every field of the stored record e unchanged
CarriesRecord(payload, e) ==
  /\ Get(payload, "food") = JStr(e.key)
  /\ \A k \in 1..Len(NutritionFields) :
       Get(payload, NutritionFields[k]) = Get(e.data, NutritionFields[k])

StatedGrams(servingSize) ==
  CASE servingSize = "1 medium apple (182g)" -> 182
    [] servingSize = "1 medium banana (118g)" -> 118
    [] OTHER -> 0

\* n is the integer nearest to a / b (b > 0)
IsNearestInteger(n, a, b) == 2 * a - b <= 2 * n * b /\ 2 * n * b <= 2 * a + b

\* C33: a nutrition call for a stored food with unit "100g" whose serving size
\* states its grams in parentheses has unit "100g" and calories the nearest
\* integer to stored calories * 100 / grams (apple 52, banana 89), the other
\* fields as stored; every other call for a stored food has the stored record
\* unchanged with unit "serving".
C33_Per100gConversion ==
  (pc = "SecondCompletion" /\ CalledTool = ToolNameNUTRITION_INFO) =>
    LET food == Get(CalledWith, "food").s IN
    \A i \in StoredFoods(food) :
      LET stored == nutritionDatabase[i].data
          grams == StatedGrams(Get(stored, "servingSize").s)
      IN IF Get(CalledWith, "unit") = JStr("100g") /\ grams > 0
         THEN /\ Get(Payload, "unit") = JStr("100g")
              /\ IsNearestInteger(Get(Payload, "calories").n, Get(stored, "calories").n * 100, grams)
              /\ nutritionDatabase[i].key = "apple" => Get(Payload, "calories") = JNum(52)
              /\ nutritionDatabase[i].key = "banana" => Get(Payload, "calories") = JNum(89)
              /\ \A k \in 2..Len(NutritionFields) :
                   Get(Payload, NutritionFields[k]) = Get(stored, NutritionFields[k])
         ELSE /\ Get(Payload, "unit") = JStr("serving")
              /\ CarriesRecord(Payload, nutritionDatabase[i])

\* banana was asked per 100g and converted; the executor returned it
C33_Witness ==
  /\ pc = "SecondCompletion"
  /\ CalledTool = ToolNameNUTRITION_INFO
  /\ Get(CalledWith, "food") = JStr("BANANA")
  /\ Get(CalledWith, "unit") = JStr("100g")
  /\ Get(Payload, "unit") = JStr("100g")
  /\ Get(Payload, "calories") = JNum(89)

\* the ingredients a query lists: its comma-separated parts, lower-cased and trimmed
ListedIngredients(query) == MapSeq(SplitComma(ToLowerCase(query)), Trim)

\* how many of the listed ingredients are a substring of some ingredient of the recipe
CountMatched(recipe, listed) ==
  Cardinality({ k \in 1..Len(listed) :
                  \E r \in 1..Len(Get(recipe, "ingredients").items) :
                    Includes(ToLowerCase(Get(recipe, "ingredients").items[r].s), listed[k]) })

\* the recipe is one the query asks for
IsAskedFor(recipe, query) ==
  IF Includes(query, ",")
  THEN 2 * CountMatched(recipe, ListedIngredients(query)) >= Len(ListedIngredients(query))
  ELSE Includes(ToLowerCase(Get(recipe, "name").s), ToLowerCase(query))

\* C34: a recipe call searches by ingredients exactly when its query has a
\* comma; its results are exactly the recipes, in dataset order, that the
\* query asks for (at least half of the listed ingredients matched, or the
\* name containing the query) and that have the given difficulty when one is
\* given; totalResults is the number of results.
C34_RecipeLookup ==
  (pc = "SecondCompletion" /\ CalledTool = ToolNameRECIPE_LOOKUP) =>
    LET query == Get(CalledWith, "query").s
        difficulty == Get(CalledWith, "filterByDifficulty")
        expected == SelectSeq(recipeDatabase,
                              LAMBDA recipe :
                                /\ IsAskedFor(recipe, query)
                                /\ IsString(difficulty) => Get(recipe, "difficulty") = difficulty)
    IN /\ IsReportedSuccess
       /\ Get(Payload, "searchType") =
            JStr(IF Includes(query, ",") THEN "ingredients" ELSE "recipe_name")
       /\ Get(Payload, "results") = JArr(expected)
       /\ Get(Payload, "totalResults") = JNum(Len(expected))
       /\ (query = "eggs, bacon, pasta" /\ ~IsString(difficulty)) =>
            \E k \in 1..Len(expected) : Get(expected[k], "name") = JStr("Pasta Carbonara")
       /\ (query = "stir fry" /\ ~IsString(difficulty)) =>
            Get(Payload, "results") = JArr(<<recipeDatabase[2]>>)

\* an ingredient search whose parts match only as substrings found Pasta
\* Carbonara, filtered by difficulty "easy"
C34_Witness ==
  /\ pc = "SecondCompletion"
  /\ CalledTool = ToolNameRECIPE_LOOKUP
  /\ Get(CalledWith, "query") = JStr("egg, baco, pasta")
  /\ Get(CalledWith, "filterByDifficulty") = JStr("easy")
  /\ Get(Payload, "searchType") = JStr("ingredients")
  /\ Get(Payload, "totalResults") = JNum(1)
  /\ Get(Get(Payload, "results").items[1], "name") = JStr("Pasta Carbonara")

---------------------------------------------------------------------------
(* The ChatBot client component                                             *)
(*   messages        the transcript (useState messages)                     *)
(*   request         the props and the rest of the state: initialMessages,  *)
(*                   inputText, isLoading                                   *)
(*   providerInputs  the bodies of the requests sent with fetch, in order   *)
(*   callState       one entry per send: "pending" until its fetch settles  *)
(* A state update is rendered before the next event is handled, so the      *)
(* values handleSend and the button see are the values of the state.        *)

MaxSends == 2

\* the texts the user types
InputTexts == {"", " ", "Hi", "More "}

\* how a fetch of the send can end: the server's message, a status that is
\* not ok, a rejected fetch, a body that is not JSON
FetchOutcomes ==
  { [ok |-> TRUE, data |-> JObj(<<"role", "content">>, <<JStr("assistant"), JStr("Hello")>>),
     message |-> ""],
    [ok |-> FALSE, data |-> JUndef, message |-> "HTTP error! status: 500"],
    [ok |-> FALSE, data |-> JUndef, message |-> "Network request failed"],
    [ok |-> FALSE, data |-> JUndef, message |-> "Unexpected end of input"] }

\* useState(initialMessages), useState(''), useState(false)
ChatInit ==
  /\ variant = "completions"
  /\ apiKey = TRUE
  /\ toolRegistry = RegisteredAtStartup
  /\ pc = "ChatBot"
  /\ \E initialMessages \in
          { <<>>, <<JObj(<<"role", "content">>, <<JStr("assistant"), JStr("Welcome")>>)>> } :
       /\ messages = JArr(initialMessages)
       /\ request = [initialMessages |-> initialMessages, inputText |-> "", isLoading |-> FALSE]
  /\ providerInputs = <<>>
  /\ executorCalls = 0
  /\ firstReply = NoReply
  /\ toolCalls = <<>>
  /\ callState = <<>>
  /\ toolResults = <<>>
  /\ settleOrder = <<>>
  /\ finalReply = NoReply
  /\ response = NoResponse

\* onChangeText={setInputText}
ChangeText ==
  /\ pc = "ChatBot"
  /\ \E text \in InputTexts :
       /\ text # request.inputText
       /\ request' = [request EXCEPT !.inputText = text]
  /\ UNCHANGED <<variant, apiKey, toolRegistry, pc, messages, providerInputs, executorCalls,
                 firstReply, toolCalls, callState, toolResults, settleOrder, finalReply, response>>

\* faulty variant of PressSend: the button is not disabled while a send is in flight
PressSendWhileLoading ==
  /\ pc = "ChatBot"
  /\ Trim(request.inputText) # ""
  /\ Len(providerInputs) < MaxSends
  /\ LET userMessage == JObj(<<"role", "content">>, <<JStr("user"), JStr(request.inputText)>>) IN
       /\ messages' = JArr(Append(messages.items, userMessage))
       /\ request' = [request EXCEPT !.inputText = "", !.isLoading = TRUE]
       /\ providerInputs' =
            Append(providerInputs, JSONStringify(Body(JArr(Append(messages.items, userMessage)))))
       /\ callState' = Append(callState, [status |-> "pending"])
  /\ UNCHANGED <<variant, apiKey, toolRegistry, pc, executorCalls, firstReply, toolCalls,
                 toolResults, settleOrder, finalReply, response>>

\* the Send button is pressed (it is disabled when the text is blank or
\* isLoading) and handleSend runs up to `await fetch(...)`
PressSend ==
  /\ pc = "ChatBot"
  /\ ~(Trim(request.inputText) = "" \/ request.isLoading)
  /\ Trim(request.inputText) # ""
  /\ Len(providerInputs) < MaxSends
  /\ LET userMessage == JObj(<<"role", "content">>, <<JStr("user"), JStr(request.inputText)>>) IN
       /\ messages' = JArr(Append(messages.items, userMessage))
       /\ request' = [request EXCEPT !.inputText = "", !.isLoading = TRUE]
       /\ providerInputs' =
            Append(providerInputs, JSONStringify(Body(JArr(Append(messages.items, userMessage)))))
       /\ callState' = Append(callState, [status |-> "pending"])
  /\ UNCHANGED <<variant, apiKey, toolRegistry, pc, executorCalls, firstReply, toolCalls,
                 toolResults, settleOrder, finalReply, response>>

\* the fetch of a send settles and handleSend runs to its end: the reply or
\* the system error message is appended, then finally isLoading is false
FetchSettles ==
  /\ pc = "ChatBot"
  /\ \E i \in 1..Len(callState), outcome \in FetchOutcomes :
       /\ callState[i].status = "pending"
       /\ callState' = [callState EXCEPT ![i] = [status |-> "settled"]]
       /\ messages' =
            JArr(Append(messages.items,
                        IF outcome.ok THEN outcome.data
                        ELSE JObj(<<"role", "content">>,
                                  <<JStr("system"), JStr("Error: " \o outcome.message)>>)))
       /\ request' = [request EXCEPT !.isLoading = FALSE]
  /\ UNCHANGED <<variant, apiKey, toolRegistry, pc, providerInputs, executorCalls, firstReply,
                 toolCalls, toolResults, settleOrder, finalReply, response>>

ChatSpec == ChatInit /\ [][ChangeText \/ PressSend \/ FetchSettles]_vars

\* the sends whose fetch has not settled
SendsInFlight == { i \in 1..Len(callState) : callState[i].status = "pending" }

\* the messages the k-th request carried
SentMessages(nth) ==
  LET body == JSONParse(JStr(providerInputs[nth])).val IN Get(body, "messages").items

MaxEvents == 3

AuthUser(id) == JObj(<<"id">>, <<JStr(id)>>)

AuthSession(token, id) ==
  JObj(<<"access_token", "user">>, <<JStr(token), AuthUser(id)>>)

ReportedSessions ==
  {JNull, AuthSession("t1", "ann"), AuthSession("t2", "ann"), AuthSession("t3", "bob")}

SegmentGroups == {"(tabs)", "auth", "+not-found"}

\* a variant of ApplySession that keeps the user when the session ends
ApplySessionKeepingUser(prevState, session) ==
  [prevState EXCEPT
     !.session = session,
     !.user = IF session.kind \in {"null", "undefined"}
                THEN prevState.user
                ELSE Get(session, "user"),
     !.isLoading = FALSE]

\* setState(prevState => ({ ...prevState, session,
\*                          user: session?.user ?? null, isLoading: false }))
ApplySession(prevState, session) ==
  [prevState EXCEPT
     !.session = session,
     !.user = IF session.kind \in {"null", "undefined"}
                THEN JNull
                ELSE IF Get(session, "user").kind \in {"null", "undefined"}
                       THEN JNull
                       ELSE Get(session, "user"),
     !.isLoading = FALSE]

\* a variant of RedirectTarget without the isLoading check
RedirectTargetWhileLoading(state, segment) ==
  IF state.user = JNull /\ segment # "auth" THEN "/auth/login"
  ELSE IF state.user # JNull /\ segment = "auth" THEN "/"
  ELSE "none"

\* the body of the AuthHandler's effect: the route it replaces the
\* current one with, "none" when it calls router.replace not at all
RedirectTarget(state, segment) ==
  IF state.isLoading THEN "none"
  ELSE IF state.user = JNull /\ segment # "auth" THEN "/auth/login"
  ELSE IF state.user # JNull /\ segment = "auth" THEN "/"
  ELSE "none"

\* segments[0] of a route the AuthHandler redirects to
GroupOf(route) == IF route = "/auth/login" THEN "auth" ELSE "(tabs)"

\* what the AuthHandler returns: null while loading, its children after
AuthHandlerOutput(state) == IF state.isLoading THEN "null" ELSE "children"

\* the effect's dependencies [user, segments, isLoading] differ
DepsChanged(state, nextState) ==
  state.user # nextState.user \/ state.isLoading # nextState.isLoading

AuthInit ==
  /\ pc \in SegmentGroups
  /\ request = [user |-> JNull, session |-> JNull, isLoading |-> TRUE]
  /\ response \in {JNull, AuthSession("t1", "ann")}
  /\ firstReply = NoReply
  /\ executorCalls = <<>>
  /\ callState = TRUE
  /\ settleOrder = <<>>
  /\ variant = "auth"
  /\ apiKey = FALSE
  /\ toolRegistry = <<>>
  /\ messages = JUndef
  /\ providerInputs = <<>>
  /\ toolCalls = <<>>
  /\ toolResults = <<>>
  /\ finalReply = NoReply

\* the then-callback of supabase.auth.getSession()
SessionFetched ==
  /\ variant = "auth"
  /\ firstReply = NoReply
  /\ LET nextState == ApplySession(request, response) IN
       /\ request' = nextState
       /\ callState' = (callState \/ DepsChanged(request, nextState))
  /\ firstReply' = Fulfilled(response)
  /\ UNCHANGED <<variant, apiKey, toolRegistry, pc, messages, providerInputs,
                 executorCalls, toolCalls, toolResults, settleOrder,
                 finalReply, response>>

\* the callback given to supabase.auth.onAuthStateChange
AuthStateChanged ==
  /\ variant = "auth"
  /\ Len(executorCalls) < MaxEvents
  /\ \E session \in ReportedSessions :
       LET nextState == ApplySession(request, session) IN
         /\ response' = session
         /\ executorCalls' = Append(executorCalls, session)
         /\ request' = nextState
         /\ callState' = (callState \/ DepsChanged(request, nextState))
  /\ UNCHANGED <<variant, apiKey, toolRegistry, pc, messages, providerInputs,
                 firstReply, toolCalls, toolResults, settleOrder, finalReply>>

\* one run of the AuthHandler's effect, after mount and after a render
\* in which one of its dependencies changed
AuthHandlerEffect ==
  /\ variant = "auth"
  /\ callState = TRUE
  /\ LET target == RedirectTarget(request, pc) IN
       /\ settleOrder' = Append(settleOrder,
                                [isLoading |-> request.isLoading,
                                 user |-> request.user,
                                 segment |-> pc,
                                 target |-> target])
       /\ pc' = IF target = "none" THEN pc ELSE GroupOf(target)
       /\ callState' = (target # "none" /\ GroupOf(target) # pc)
  /\ UNCHANGED <<variant, apiKey, toolRegistry, request, messages,
                 providerInputs, executorCalls, firstReply, toolCalls,
                 toolResults, finalReply, response>>

AuthNext == SessionFetched \/ AuthStateChanged \/ AuthHandlerEffect

AuthSpec == AuthInit /\ [][AuthNext]_vars /\ WF_vars(AuthHandlerEffect)

\* the session of the latest report the provider was given
ReportsProcessed == firstReply # NoReply \/ executorCalls # <<>>

EffectRan == Len(settleOrder') = Len(settleOrder) + 1

\* C37: while the auth state is loading the AuthHandler returns null and
\* its effect redirects nowhere; after loading, a run of the effect with no
\* user outside the auth group replaces the route by the login screen, a
\* run with a user inside the auth group replaces it by the home screen,
\* and any other run leaves the route alone; the route changes in no other
\* step; after a redirect no redirect is due, and a redirect that is due
\* happens unless the user changes first.
C37_AuthHandlerRedirects ==
  /\ [](variant = "auth" /\ request.isLoading =>
          /\ AuthHandlerOutput(request) = "null"
          /\ \A nth \in 1..Len(settleOrder) : settleOrder[nth].target = "none")
  /\ [](variant = "auth" /\ ~request.isLoading =>
          AuthHandlerOutput(request) = "children")
  /\ [][EffectRan =>
          /\ request.isLoading => pc' = pc
          /\ ~request.isLoading /\ request.user = JNull /\ pc # "auth" =>
               pc' = "auth" /\ settleOrder'[Len(settleOrder')].target = "/auth/login"
          /\ ~request.isLoading /\ request.user # JNull /\ pc = "auth" =>
               pc' = "(tabs)" /\ settleOrder'[Len(settleOrder')].target = "/"
          /\ ~request.isLoading /\ request.user = JNull /\ pc = "auth" =>
               pc' = pc /\ settleOrder'[Len(settleOrder')].target = "none"
          /\ ~request.isLoading /\ request.user # JNull /\ pc # "auth" =>
               pc' = pc /\ settleOrder'[Len(settleOrder')].target = "none"
          /\ pc' # pc =>
               ~(request'.user = JNull /\ pc' # "auth")
               /\ ~(request'.user # JNull /\ pc' = "auth")]_vars
  /\ [][pc' # pc => EffectRan]_vars
  /\ ((variant = "auth" /\ ~request.isLoading /\ request.user = JNull /\ pc # "auth")
        ~> (pc = "auth" \/ request.user # JNull))
  /\ ((variant = "auth" /\ ~request.isLoading /\ request.user # JNull /\ pc = "auth")
        ~> (pc = "(tabs)" \/ request.user = JNull))

\* the effect ran while loading without a redirect, sent the signed-out
\* user to the login screen, and after the sign-in sent the user home
C37_Witness ==
  /\ variant = "auth"
  /\ Len(settleOrder) = 4
  /\ settleOrder[1].isLoading /\ settleOrder[1].target = "none"
  /\ settleOrder[2].target = "/auth/login"
  /\ settleOrder[3].target = "none" /\ settleOrder[3].segment = "auth"
  /\ settleOrder[4].target = "/" /\ settleOrder[4].user = AuthUser("ann")
  /\ pc = "(tabs)"
  /\ callState = TRUE

====
